---------------------------- MODULE Spec2Model ----------------------------
(***************************************************************************)
(* Model of bdlm/grpc-gateway-wrapper.                                     *)
(*                                                                         *)
(* Part 1, the service host (package server, src/interceptor/log/log.go    *)
(* lines 350-492): New, ListenAndServe with its two listener goroutines    *)
(* and its shutdown handler goroutine, and Shutdown.  The grpc.Server and  *)
(* http.Server objects the host drives are modelled by the state their     *)
(* documented behaviour depends on (listener open/closed, stopped flag,    *)
(* in-flight calls).                                                       *)
(*                                                                         *)
(* Part 2, the logging interceptors (package log, same file, lines 1-303): *)
(* UnaryInterceptor, StreamInterceptor, logRequest, logResponse and the    *)
(* loggingServerStream wrapper, run by concurrent calls.                   *)
(*                                                                         *)
(* Part 3, the codecs: the JSON codec registered as the default gRPC       *)
(* codec (src/encoding/json/init.go) and the form decoder of the gateway   *)
(* (src/encoding/http/form.go), with the behaviour of jsonpb, net/url and  *)
(* the gateway's query populator they call.                                *)
(***************************************************************************)
EXTENDS Integers, Sequences, FiniteSets, TLC

\* ------------------------------------------------------------------ bounds

\* In-flight gRPC calls the model lets the binary-protocol server hold.
MaxCalls == 1
\* Active HTTP connections the model lets the HTTP server hold.
MaxConns == 1
\* Shutdown() calls the caller makes, one after the other.
MaxShutdownCalls == 2
\* Calls the interceptors serve concurrently.
NCalls == 2
\* Messages sent or received on one stream.
MaxMsgs == 1
\* Key/value pairs in one form body.
MaxPairs == 2

VARIABLES
    mainPc,         \* the caller: New, ListenAndServe, Shutdown
    newErr,         \* New returned an error (and no Server)
    parentDone,     \* the context handed to New is cancelled
    cancelCalls,    \* how many times server.cancel() has been invoked
    wg,             \* server.wg: the WaitGroup counter
    grpcPc,         \* the gRPC listener goroutine
    httpPc,         \* the HTTP listener goroutine
    handlerPc,      \* the shutdown handler goroutine
    grpcStopPc,     \* the goroutine running grpcServer.GracefulStop()
    httpStopPc,     \* the goroutine running httpServer.Shutdown(ctx)
    grpcLis,        \* the TCP listener of the gRPC server
    httpLis,        \* the TCP listener of the HTTP server
    grpcStopped,    \* grpc.Server: Stop/GracefulStop has been called
    grpcDone,       \* grpc.Server: GracefulStop has finished
    httpInShutdown, \* http.Server: Shutdown has been called
    grpcCalls,      \* in-flight gRPC calls
    httpConns,      \* active HTTP connections
    grpcErr,        \* the error the gRPC listener goroutine met
    httpErr,        \* the error the HTTP listener goroutine met
    httpTimedOut,   \* httpServer.Shutdown returned the context's error
    shutdownCalls,  \* Shutdown() calls begun
    shutdownReturns,\* Shutdown() calls returned
    drainStarts,    \* times the shutdown handler passed <-server.ctx.Done()
    grpcStopCalls,  \* calls of grpcServer.GracefulStop()
    httpStopCalls,  \* calls of httpServer.Shutdown()
    srvLog,         \* messages the host has logged
    aborted,        \* the process has died of a panic
    grpcServer,     \* the grpcServer argument of New: "nil" or "srv"
    li,             \* the Interceptor: its three flags
    callPc,         \* each call: where its interceptor stands
    callIn,         \* each call: kind, full method, metadata, peer
    callFields,     \* each call: the field map kept in its context
    heap,           \* the field maps, by the object that holds them
    streamEntry,    \* each stream: the data of loggingServerStream.entry
    callErr,        \* each call: the error its handler returned
    callMsgs,       \* each stream: messages sent and received so far
    log,            \* the entries each call logged, in order of emission
    handlerArgs,    \* each call: what its handler was invoked with, per run
    callOps,        \* each stream: the sends and receives done underneath
    wrapRets,       \* each stream: what the wrapper's SendMsg/RecvMsg returned
    callRet,        \* each call: what its interceptor returned
    codecPc,        \* the codec calls made so far: idle, encoded, decoded
    codecIn,        \* the value handed to Marshal, or the form body
    wire,           \* the bytes Marshal produced (or a peer sent)
    codecOut        \* what Unmarshal / decodeForm left: error, message

srvVars == <<mainPc, newErr, parentDone, cancelCalls, wg, grpcPc, httpPc,
             handlerPc, grpcStopPc, httpStopPc, grpcLis, httpLis, grpcStopped,
             grpcDone, httpInShutdown, grpcCalls, httpConns, grpcErr, httpErr,
             httpTimedOut, shutdownCalls, shutdownReturns, drainStarts,
             grpcStopCalls, httpStopCalls, srvLog, aborted, grpcServer>>

traceVars == <<handlerArgs, callOps, wrapRets, callRet>>

logVars == <<li, callPc, callIn, callFields, heap, streamEntry, callErr,
             callMsgs, log, traceVars>>

codecVars == <<codecPc, codecIn, wire, codecOut>>

vars == <<srvVars, logVars, codecVars>>

\* ---------------------------------------------------------- service host

\* server.ctx is context.WithCancel(parent): done once cancel() was called or
\* the parent is done.
CtxDone == cancelCalls > 0 \/ parentDone

InitServer ==
    /\ mainPc = "init"
    /\ newErr = FALSE
    /\ parentDone \in BOOLEAN
    /\ cancelCalls = 0
    /\ wg = 0
    /\ grpcPc = "none"
    /\ httpPc = "none"
    /\ handlerPc = "none"
    /\ grpcStopPc = "none"
    /\ httpStopPc = "none"
    /\ grpcLis = "none"
    /\ httpLis = "none"
    /\ grpcStopped = FALSE
    /\ grpcDone = FALSE
    /\ httpInShutdown = FALSE
    /\ grpcCalls = 0
    /\ httpConns = 0
    /\ grpcErr = "none"
    /\ httpErr = "none"
    /\ httpTimedOut = FALSE
    /\ shutdownCalls = 0
    /\ shutdownReturns = 0
    /\ drainStarts = 0
    /\ grpcStopCalls = 0
    /\ httpStopCalls = 0
    /\ srvLog = {}
    /\ aborted = FALSE
    /\ grpcServer \in {"nil", "srv"}

mainVars     == <<mainPc, newErr, shutdownCalls, shutdownReturns>>
ctxVars      == <<parentDone, cancelCalls>>
grpcTaskVars == <<grpcPc, grpcErr>>
httpTaskVars == <<httpPc, httpErr>>
grpcSrvVars  == <<grpcLis, grpcStopped, grpcDone, grpcCalls>>
httpSrvVars  == <<httpLis, httpInShutdown, httpConns>>
handlerVars  == <<handlerPc, drainStarts>>
grpcStopVars == <<grpcStopPc, grpcStopCalls>>
httpStopVars == <<httpStopPc, httpStopCalls, httpTimedOut>>
deathVars    == <<aborted, grpcServer>>

\* server.cancel(): the CancelFunc of context.WithCancel; calling it again
\* changes nothing but is counted.
Cancel == cancelCalls' = cancelCalls + 1

\* The parent context handed to New is cancelled by its owner.
ParentCancel ==
    /\ ~aborted
    /\ ~parentDone
    /\ parentDone' = TRUE
    /\ UNCHANGED <<logVars, codecVars>>
    /\ UNCHANGED <<mainVars, cancelCalls, wg, grpcTaskVars, httpTaskVars,
                   grpcSrvVars, httpSrvVars, handlerVars, grpcStopVars,
                   httpStopVars, srvLog, deathVars>>

\* New without its nil check: a Server whatever the handle.
NewNoNilCheck ==
    /\ mainPc = "init"
    /\ mainPc' = "created"
    /\ newErr' = FALSE
    /\ UNCHANGED <<logVars, codecVars>>
    /\ UNCHANGED <<shutdownCalls, shutdownReturns, ctxVars, wg, grpcTaskVars,
                   httpTaskVars, grpcSrvVars, httpSrvVars, handlerVars,
                   grpcStopVars, httpStopVars, srvLog, deathVars>>

\* New(ctx, handler, grpcServer): an error and no Server for a nil
\* grpcServer, else a Server with a fresh cancelable context and WaitGroup.
New ==
    /\ mainPc = "init"
    /\ IF grpcServer = "nil"
         THEN /\ mainPc' = "newFailed"
              /\ newErr' = TRUE
              /\ srvLog' = srvLog \cup {"cannot create service handlers"}
         ELSE /\ mainPc' = "created"
              /\ newErr' = FALSE
              /\ srvLog' = srvLog
    /\ UNCHANGED <<logVars, codecVars>>
    /\ UNCHANGED <<shutdownCalls, shutdownReturns, ctxVars, wg, grpcTaskVars,
                   httpTaskVars, grpcSrvVars, httpSrvVars, handlerVars,
                   grpcStopVars, httpStopVars, deathVars>>

\* The gRPC listener task spawned without server.wg.Add(1).
SpawnGrpcTaskNoAdd ==
    /\ ~aborted
    /\ mainPc = "created"
    /\ mainPc' = "spawnedGrpc"
    /\ grpcPc' = "start"
    /\ UNCHANGED <<logVars, codecVars>>
    /\ UNCHANGED <<newErr, shutdownCalls, shutdownReturns, ctxVars, wg,
                   grpcErr, httpTaskVars, grpcSrvVars, httpSrvVars,
                   handlerVars, grpcStopVars, httpStopVars, srvLog, deathVars>>

\* ListenAndServe, first part: server.wg.Add(1); go <gRPC listener task>.
SpawnGrpcTask ==
    /\ ~aborted
    /\ mainPc = "created"
    /\ mainPc' = "spawnedGrpc"
    /\ wg' = wg + 1
    /\ grpcPc' = "start"
    /\ UNCHANGED <<logVars, codecVars>>
    /\ UNCHANGED <<newErr, shutdownCalls, shutdownReturns, ctxVars, grpcErr,
                   httpTaskVars, grpcSrvVars, httpSrvVars, handlerVars,
                   grpcStopVars, httpStopVars, srvLog, deathVars>>

\* ListenAndServe, second part: server.wg.Add(1); go <HTTP listener task>.
SpawnHttpTask ==
    /\ ~aborted
    /\ mainPc = "spawnedGrpc"
    /\ mainPc' = "spawnedHttp"
    /\ wg' = wg + 1
    /\ httpPc' = "start"
    /\ UNCHANGED <<logVars, codecVars>>
    /\ UNCHANGED <<newErr, shutdownCalls, shutdownReturns, ctxVars, httpErr,
                   grpcTaskVars, grpcSrvVars, httpSrvVars, handlerVars,
                   grpcStopVars, httpStopVars, srvLog, deathVars>>

\* ListenAndServe, last part: go <shutdown handler>; return.
SpawnHandler ==
    /\ ~aborted
    /\ mainPc = "spawnedHttp"
    /\ mainPc' = "listening"
    /\ handlerPc' = "waiting"
    /\ UNCHANGED <<logVars, codecVars>>
    /\ UNCHANGED <<newErr, shutdownCalls, shutdownReturns, ctxVars, wg,
                   drainStarts, grpcTaskVars, httpTaskVars, grpcSrvVars,
                   httpSrvVars, grpcStopVars, httpStopVars, srvLog, deathVars>>

\* Shutdown(), first statement: server.cancel().
ShutdownCancel ==
    /\ ~aborted
    /\ mainPc \in {"listening", "returned"}
    /\ shutdownCalls < MaxShutdownCalls
    /\ mainPc' = "waiting"
    /\ shutdownCalls' = shutdownCalls + 1
    /\ Cancel
    /\ UNCHANGED <<logVars, codecVars>>
    /\ UNCHANGED <<newErr, shutdownReturns, parentDone, wg, grpcTaskVars,
                   httpTaskVars, grpcSrvVars, httpSrvVars, handlerVars,
                   grpcStopVars, httpStopVars, srvLog, deathVars>>

\* What server.wg.Wait() waits for.
WaitOver == wg = 0

\* Shutdown(), second statement: server.wg.Wait() returns, and so does
\* Shutdown.
ShutdownReturn ==
    /\ ~aborted
    /\ mainPc = "waiting"
    /\ WaitOver
    /\ mainPc' = "returned"
    /\ shutdownReturns' = shutdownReturns + 1
    /\ UNCHANGED <<logVars, codecVars>>
    /\ UNCHANGED <<newErr, shutdownCalls, ctxVars, wg, grpcTaskVars,
                   httpTaskVars, grpcSrvVars, httpSrvVars, handlerVars,
                   grpcStopVars, httpStopVars, srvLog, deathVars>>


\* ---- the gRPC listener goroutine (ListenAndServe, go func() #1)

\* net.Listen("tcp", Conf.GrpcAddress) succeeds (after "starting gRPC
\* server" was logged).
GrpcListenOk ==
    /\ ~aborted
    /\ grpcPc = "start"
    /\ grpcPc' = "bound"
    /\ grpcLis' = "open"
    /\ srvLog' = srvLog \cup {"starting gRPC server"}
    /\ UNCHANGED <<logVars, codecVars>>
    /\ UNCHANGED <<mainVars, ctxVars, wg, grpcErr, httpTaskVars, grpcStopped,
                   grpcDone, grpcCalls, httpSrvVars, handlerVars, grpcStopVars,
                   httpStopVars, deathVars>>

\* net.Listen fails (address in use): nil != err.
GrpcListenFail ==
    /\ ~aborted
    /\ grpcPc = "start"
    /\ grpcPc' = "failed"
    /\ grpcErr' = "bind"
    /\ srvLog' = srvLog \cup {"starting gRPC server"}
    /\ UNCHANGED <<logVars, codecVars>>
    /\ UNCHANGED <<mainVars, ctxVars, wg, httpTaskVars, grpcSrvVars,
                   httpSrvVars, handlerVars, grpcStopVars, httpStopVars,
                   deathVars>>

\* grpcServer.Serve(listener) is entered.  grpc.Server.Serve called after
\* Stop or GracefulStop closes the listener it was given and returns
\* ErrServerStopped; otherwise it registers the listener and accepts.
GrpcServeBegin ==
    /\ ~aborted
    /\ grpcPc = "bound"
    /\ IF grpcStopped
         THEN /\ grpcPc' = "failed"
              /\ grpcErr' = "stopped"
              /\ grpcLis' = "closed"
         ELSE /\ grpcPc' = "serving"
              /\ UNCHANGED <<grpcErr, grpcLis>>
    /\ UNCHANGED <<logVars, codecVars>>
    /\ UNCHANGED <<mainVars, ctxVars, wg, httpTaskVars, grpcStopped, grpcDone,
                   grpcCalls, httpSrvVars, handlerVars, grpcStopVars,
                   httpStopVars, srvLog, deathVars>>

\* The serve loop accepts a connection carrying a call.
GrpcAccept ==
    /\ ~aborted
    /\ grpcPc = "serving"
    /\ grpcLis = "open"
    /\ grpcCalls < MaxCalls
    /\ grpcCalls' = grpcCalls + 1
    /\ UNCHANGED <<logVars, codecVars>>
    /\ UNCHANGED <<mainVars, ctxVars, wg, grpcTaskVars, httpTaskVars, grpcLis,
                   grpcStopped, grpcDone, httpSrvVars, handlerVars,
                   grpcStopVars, httpStopVars, srvLog, deathVars>>

\* An in-flight call finishes (its handler returns).
GrpcCallFinish ==
    /\ ~aborted
    /\ grpcCalls > 0
    /\ grpcCalls' = grpcCalls - 1
    /\ UNCHANGED <<logVars, codecVars>>
    /\ UNCHANGED <<mainVars, ctxVars, wg, grpcTaskVars, httpTaskVars, grpcLis,
                   grpcStopped, grpcDone, httpSrvVars, handlerVars,
                   grpcStopVars, httpStopVars, srvLog, deathVars>>

\* lis.Accept fails with a permanent error while the server is not stopped:
\* Serve closes the listener and returns that error.
GrpcAcceptError ==
    /\ ~aborted
    /\ grpcPc = "serving"
    /\ ~grpcStopped
    /\ grpcPc' = "failed"
    /\ grpcErr' = "accept"
    /\ grpcLis' = "closed"
    /\ UNCHANGED <<logVars, codecVars>>
    /\ UNCHANGED <<mainVars, ctxVars, wg, httpTaskVars, grpcStopped, grpcDone,
                   grpcCalls, httpSrvVars, handlerVars, grpcStopVars,
                   httpStopVars, srvLog, deathVars>>

\* Serve returns nil: GracefulStop closed the listener, and Serve blocks
\* until GracefulStop is done.  The goroutine ends; defer server.wg.Done().
GrpcServeReturn ==
    /\ ~aborted
    /\ grpcPc = "serving"
    /\ grpcStopped
    /\ grpcDone
    /\ grpcPc' = "exited"
    /\ wg' = wg - 1
    /\ UNCHANGED <<logVars, codecVars>>
    /\ UNCHANGED <<mainVars, ctxVars, grpcErr, httpTaskVars, grpcSrvVars,
                   httpSrvVars, handlerVars, grpcStopVars, httpStopVars,
                   srvLog, deathVars>>

\* The gRPC error path going to its panic without server.cancel().
GrpcCancelSkipped ==
    /\ ~aborted
    /\ grpcPc = "failed"
    /\ grpcPc' = "panic"
    /\ UNCHANGED <<logVars, codecVars>>
    /\ UNCHANGED <<mainVars, ctxVars, wg, grpcErr, httpTaskVars,
                   grpcSrvVars, httpSrvVars, handlerVars, grpcStopVars,
                   httpStopVars, srvLog, deathVars>>

\* nil != err: server.cancel().
GrpcCancel ==
    /\ ~aborted
    /\ grpcPc = "failed"
    /\ grpcPc' = "panic"
    /\ Cancel
    /\ UNCHANGED <<logVars, codecVars>>
    /\ UNCHANGED <<mainVars, parentDone, wg, grpcErr, httpTaskVars,
                   grpcSrvVars, httpSrvVars, handlerVars, grpcStopVars,
                   httpStopVars, srvLog, deathVars>>

\* panic(errors.Wrap(err, ...)): the deferred server.wg.Done() runs while
\* the goroutine unwinds; the runtime then kills the process (Abort).
GrpcPanic ==
    /\ ~aborted
    /\ grpcPc = "panic"
    /\ grpcPc' = "dead"
    /\ wg' = wg - 1
    /\ UNCHANGED <<logVars, codecVars>>
    /\ UNCHANGED <<mainVars, ctxVars, grpcErr, httpTaskVars, grpcSrvVars,
                   httpSrvVars, handlerVars, grpcStopVars, httpStopVars,
                   srvLog, deathVars>>

\* ---- the HTTP listener goroutine (ListenAndServe, go func() #2)

\* httpServer.ListenAndServe() on a server whose Shutdown was already
\* called: it returns ErrServerClosed, which the goroutine takes as a
\* normal end; defer server.wg.Done().
HttpServeClosedEarly ==
    /\ ~aborted
    /\ httpPc = "start"
    /\ httpInShutdown
    /\ httpPc' = "exited"
    /\ wg' = wg - 1
    /\ srvLog' = srvLog \cup {"starting HTTP server"}
    /\ UNCHANGED <<logVars, codecVars>>
    /\ UNCHANGED <<mainVars, ctxVars, httpErr, grpcTaskVars, grpcSrvVars,
                   httpSrvVars, handlerVars, grpcStopVars, httpStopVars,
                   deathVars>>

\* ListenAndServe binds Conf.RestAddress.
HttpListenOk ==
    /\ ~aborted
    /\ httpPc = "start"
    /\ ~httpInShutdown
    /\ httpPc' = "bound"
    /\ httpLis' = "open"
    /\ srvLog' = srvLog \cup {"starting HTTP server"}
    /\ UNCHANGED <<logVars, codecVars>>
    /\ UNCHANGED <<mainVars, ctxVars, wg, httpErr, grpcTaskVars, grpcSrvVars,
                   httpInShutdown, httpConns, handlerVars, grpcStopVars,
                   httpStopVars, deathVars>>

\* ListenAndServe cannot bind: an error other than ErrServerClosed.
HttpListenFail ==
    /\ ~aborted
    /\ httpPc = "start"
    /\ ~httpInShutdown
    /\ httpPc' = "failed"
    /\ httpErr' = "bind"
    /\ srvLog' = srvLog \cup {"starting HTTP server"}
    /\ UNCHANGED <<logVars, codecVars>>
    /\ UNCHANGED <<mainVars, ctxVars, wg, grpcTaskVars, grpcSrvVars,
                   httpSrvVars, handlerVars, grpcStopVars, httpStopVars,
                   deathVars>>

\* Serve registers the listener; if Shutdown was called meanwhile it closes
\* the listener and returns ErrServerClosed (a normal end of the goroutine).
HttpServeBegin ==
    /\ ~aborted
    /\ httpPc = "bound"
    /\ IF httpInShutdown
         THEN /\ httpPc' = "exited"
              /\ httpLis' = "closed"
              /\ wg' = wg - 1
         ELSE /\ httpPc' = "serving"
              /\ UNCHANGED <<httpLis, wg>>
    /\ UNCHANGED <<logVars, codecVars>>
    /\ UNCHANGED <<mainVars, ctxVars, httpErr, grpcTaskVars, grpcSrvVars,
                   httpInShutdown, httpConns, handlerVars, grpcStopVars,
                   httpStopVars, srvLog, deathVars>>

\* The serve loop accepts a connection.
HttpAccept ==
    /\ ~aborted
    /\ httpPc = "serving"
    /\ httpLis = "open"
    /\ httpConns < MaxConns
    /\ httpConns' = httpConns + 1
    /\ UNCHANGED <<logVars, codecVars>>
    /\ UNCHANGED <<mainVars, ctxVars, wg, grpcTaskVars, httpTaskVars,
                   grpcSrvVars, httpLis, httpInShutdown, handlerVars,
                   grpcStopVars, httpStopVars, srvLog, deathVars>>

\* An active connection finishes its request and goes away.
HttpConnFinish ==
    /\ ~aborted
    /\ httpConns > 0
    /\ httpConns' = httpConns - 1
    /\ UNCHANGED <<logVars, codecVars>>
    /\ UNCHANGED <<mainVars, ctxVars, wg, grpcTaskVars, httpTaskVars,
                   grpcSrvVars, httpLis, httpInShutdown, handlerVars,
                   grpcStopVars, httpStopVars, srvLog, deathVars>>

\* Accept fails with a permanent error while the server is not shutting
\* down: Serve closes the listener and returns that error.
HttpAcceptError ==
    /\ ~aborted
    /\ httpPc = "serving"
    /\ ~httpInShutdown
    /\ httpPc' = "failed"
    /\ httpErr' = "accept"
    /\ httpLis' = "closed"
    /\ UNCHANGED <<logVars, codecVars>>
    /\ UNCHANGED <<mainVars, ctxVars, wg, grpcTaskVars, grpcSrvVars,
                   httpInShutdown, httpConns, handlerVars, grpcStopVars,
                   httpStopVars, srvLog, deathVars>>

\* Shutdown closed the listener: Serve returns ErrServerClosed at once (it
\* does not wait for Shutdown to finish); the goroutine ends normally;
\* defer server.wg.Done().
HttpServeClosed ==
    /\ ~aborted
    /\ httpPc = "serving"
    /\ httpInShutdown
    /\ httpPc' = "exited"
    /\ wg' = wg - 1
    /\ UNCHANGED <<logVars, codecVars>>
    /\ UNCHANGED <<mainVars, ctxVars, httpErr, grpcTaskVars, grpcSrvVars,
                   httpSrvVars, handlerVars, grpcStopVars, httpStopVars,
                   srvLog, deathVars>>

\* nil != err && http.ErrServerClosed != err: server.cancel().
HttpCancel ==
    /\ ~aborted
    /\ httpPc = "failed"
    /\ httpPc' = "panic"
    /\ Cancel
    /\ UNCHANGED <<logVars, codecVars>>
    /\ UNCHANGED <<mainVars, parentDone, wg, httpErr, grpcTaskVars,
                   grpcSrvVars, httpSrvVars, handlerVars, grpcStopVars,
                   httpStopVars, srvLog, deathVars>>

\* panic(errors.Wrap(err, ...)): the deferred server.wg.Done() runs, then
\* the runtime kills the process (Abort).
HttpPanic ==
    /\ ~aborted
    /\ httpPc = "panic"
    /\ httpPc' = "dead"
    /\ wg' = wg - 1
    /\ UNCHANGED <<logVars, codecVars>>
    /\ UNCHANGED <<mainVars, ctxVars, httpErr, grpcTaskVars, grpcSrvVars,
                   httpSrvVars, handlerVars, grpcStopVars, httpStopVars,
                   srvLog, deathVars>>

\* The shutdown tasks that have not run to completion.
Unfinished ==
    (IF grpcStopPc = "done" THEN {} ELSE {"grpc"}) \cup
    (IF httpStopPc = "done" THEN {} ELSE {"http"})

\* An unrecovered panic of a goroutine ends the whole process, whatever the
\* other goroutines are doing.
Abort ==
    /\ ~aborted
    /\ grpcPc = "dead" \/ httpPc = "dead"
    /\ aborted' = TRUE
    /\ UNCHANGED <<logVars, codecVars>>
    /\ UNCHANGED <<grpcServer, mainVars, ctxVars, wg, grpcTaskVars, httpTaskVars,
                   grpcSrvVars, httpSrvVars, handlerVars, grpcStopVars,
                   httpStopVars, srvLog>>

\* ---- the shutdown handler goroutine (ListenAndServe, go func() #3)

\* The handler written as a loop around <-server.ctx.Done(): a done context
\* lets it through again after it has spawned both tasks.
HandlerWakeAgain ==
    /\ ~aborted
    /\ handlerPc \in {"waiting", "done"}
    /\ CtxDone
    /\ handlerPc' = "spawnedGrpcStop"
    /\ drainStarts' = drainStarts + 1
    /\ grpcStopPc' = "start"
    /\ UNCHANGED <<logVars, codecVars>>
    /\ UNCHANGED <<mainVars, ctxVars, wg, grpcTaskVars, httpTaskVars,
                   grpcSrvVars, httpSrvVars, grpcStopCalls, httpStopVars,
                   srvLog, deathVars>>

\* <-server.ctx.Done() returns; go <gRPC shutdown task>.
HandlerWake ==
    /\ ~aborted
    /\ handlerPc = "waiting"
    /\ CtxDone
    /\ handlerPc' = "spawnedGrpcStop"
    /\ drainStarts' = drainStarts + 1
    /\ grpcStopPc' = "start"
    /\ UNCHANGED <<logVars, codecVars>>
    /\ UNCHANGED <<mainVars, ctxVars, wg, grpcTaskVars, httpTaskVars,
                   grpcSrvVars, httpSrvVars, grpcStopCalls, httpStopVars,
                   srvLog, deathVars>>

\* go <HTTP shutdown task>; the handler goroutine ends (it joins neither).
HandlerSpawnHttpStop ==
    /\ ~aborted
    /\ handlerPc = "spawnedGrpcStop"
    /\ handlerPc' = "done"
    /\ httpStopPc' = "start"
    /\ UNCHANGED <<logVars, codecVars>>
    /\ UNCHANGED <<mainVars, ctxVars, wg, grpcTaskVars, httpTaskVars,
                   grpcSrvVars, httpSrvVars, drainStarts, grpcStopVars,
                   httpStopCalls, httpTimedOut, srvLog, deathVars>>

\* ---- the gRPC shutdown task

\* log "stopping gRPC server"; GracefulStop begins: the server is marked
\* stopped and the listener it serves on is closed (a listener that was
\* bound but not yet handed to Serve is not the server's to close).
GrpcStopBegin ==
    /\ ~aborted
    /\ grpcStopPc = "start"
    /\ grpcStopPc' = "waiting"
    /\ grpcStopCalls' = grpcStopCalls + 1
    /\ grpcStopped' = TRUE
    /\ grpcLis' = IF grpcPc = "serving" /\ grpcLis = "open"
                    THEN "closed" ELSE grpcLis
    /\ srvLog' = srvLog \cup {"stopping gRPC server"}
    /\ UNCHANGED <<logVars, codecVars>>
    /\ UNCHANGED <<mainVars, ctxVars, wg, grpcTaskVars, httpTaskVars,
                   grpcDone, grpcCalls, httpSrvVars, handlerVars,
                   httpStopVars, deathVars>>

\* GracefulStop returns once no call is in flight.
GrpcStopReturn ==
    /\ ~aborted
    /\ grpcStopPc = "waiting"
    /\ grpcCalls = 0
    /\ grpcStopPc' = "stopped"
    /\ grpcDone' = TRUE
    /\ UNCHANGED <<logVars, codecVars>>
    /\ UNCHANGED <<mainVars, ctxVars, wg, grpcTaskVars, httpTaskVars, grpcLis,
                   grpcStopped, grpcCalls, httpSrvVars, handlerVars,
                   grpcStopCalls, httpStopVars, srvLog, deathVars>>

\* The gRPC shutdown task ending with a server.wg.Done() of its own.
GrpcStopCompleteWgDone ==
    /\ ~aborted
    /\ grpcStopPc = "stopped"
    /\ grpcStopPc' = "done"
    /\ wg' = wg - 1
    /\ srvLog' = srvLog \cup {"gRPC shutdown complete"}
    /\ UNCHANGED <<logVars, codecVars>>
    /\ UNCHANGED <<mainVars, ctxVars, grpcTaskVars, httpTaskVars,
                   grpcSrvVars, httpSrvVars, handlerVars, grpcStopCalls,
                   httpStopVars, deathVars>>

\* log "gRPC shutdown complete"; the task ends.
GrpcStopComplete ==
    /\ ~aborted
    /\ grpcStopPc = "stopped"
    /\ grpcStopPc' = "done"
    /\ srvLog' = srvLog \cup {"gRPC shutdown complete"}
    /\ UNCHANGED <<logVars, codecVars>>
    /\ UNCHANGED <<mainVars, ctxVars, wg, grpcTaskVars, httpTaskVars,
                   grpcSrvVars, httpSrvVars, handlerVars, grpcStopCalls,
                   httpStopVars, deathVars>>

\* ---- the HTTP shutdown task

\* log "stopping HTTP server"; context.WithTimeout(Background, ReadTimeout);
\* httpServer.Shutdown(ctx) begins: the server is marked shutting down and
\* the listener it serves on is closed.
HttpStopBegin ==
    /\ ~aborted
    /\ httpStopPc = "start"
    /\ httpStopPc' = "draining"
    /\ httpStopCalls' = httpStopCalls + 1
    /\ httpInShutdown' = TRUE
    /\ httpLis' = IF httpPc = "serving" /\ httpLis = "open"
                    THEN "closed" ELSE httpLis
    /\ srvLog' = srvLog \cup {"stopping HTTP server"}
    /\ UNCHANGED <<logVars, codecVars>>
    /\ UNCHANGED <<mainVars, ctxVars, wg, grpcTaskVars, httpTaskVars,
                   grpcSrvVars, httpConns, handlerVars, grpcStopVars,
                   httpTimedOut, deathVars>>

\* Shutdown finds every connection idle and returns nil.
HttpStopDrained ==
    /\ ~aborted
    /\ httpStopPc = "draining"
    /\ httpConns = 0
    /\ httpStopPc' = "returned"
    /\ UNCHANGED <<logVars, codecVars>>
    /\ UNCHANGED <<mainVars, ctxVars, wg, grpcTaskVars, httpTaskVars,
                   grpcSrvVars, httpSrvVars, handlerVars, grpcStopVars,
                   httpStopCalls, httpTimedOut, srvLog, deathVars>>

\* What http.Server.Shutdown leaves of the active connections when its
\* context expires: it returns ctx.Err() and closes none of them (only
\* http.Server.Close does, which the host never calls).
ConnsAfterTimeout(n) == n

\* The ReadTimeout deadline passes with connections still active: Shutdown
\* returns the context's error.
HttpStopTimeout ==
    /\ ~aborted
    /\ httpStopPc = "draining"
    /\ httpConns > 0
    /\ httpStopPc' = "returned"
    /\ httpTimedOut' = TRUE
    /\ httpConns' = ConnsAfterTimeout(httpConns)
    /\ UNCHANGED <<logVars, codecVars>>
    /\ UNCHANGED <<mainVars, ctxVars, wg, grpcTaskVars, httpTaskVars,
                   grpcSrvVars, httpLis, httpInShutdown, handlerVars,
                   grpcStopVars, httpStopCalls, srvLog, deathVars>>

\* if nil != err: log the warning; log "HTTP shutdown complete"; the task
\* ends (deferred cancel of its own timeout context).
HttpStopComplete ==
    /\ ~aborted
    /\ httpStopPc = "returned"
    /\ httpStopPc' = "done"
    /\ srvLog' = srvLog \cup
         (IF httpTimedOut
            THEN {"Unable to gracefully handle all HTTP connections"}
            ELSE {}) \cup {"HTTP shutdown complete"}
    /\ UNCHANGED <<logVars, codecVars>>
    /\ UNCHANGED <<mainVars, ctxVars, wg, grpcTaskVars, httpTaskVars,
                   grpcSrvVars, httpSrvVars, handlerVars, grpcStopVars,
                   httpStopCalls, httpTimedOut, deathVars>>

\* -------------------------------------------------- logging interceptors

\* Strings are sequences of tokens, so that concatenation, prefixes and
\* slicing are computed and not assumed.
Str127 == <<"1", "2", "7", ".", "0", ".", "0", ".", "1">>
StrLocalhost == <<"l", "o", "c", "a", "l", "h", "o", "s", "t">>

\* strings.HasPrefix(s, p)
HasPrefix(s, p) == Len(s) >= Len(p) /\ SubSeq(s, 1, Len(p)) = p

\* strings.LastIndexByte(s, b): the 0-based index of the last b, or -1.
LastIndexByte(s, b) ==
    IF \E i \in 1..Len(s) : s[i] = b
      THEN (CHOOSE i \in 1..Len(s) :
                s[i] = b /\ \A j \in (i + 1)..Len(s) : s[j] # b) - 1
      ELSE -1

\* strings.TrimFunc(s, f) for f = "is [ or ]": leading and trailing
\* brackets are cut.
RECURSIVE TrimLeftBrackets(_)
TrimLeftBrackets(s) ==
    IF s # <<>> /\ Head(s) \in {"[", "]"}
      THEN TrimLeftBrackets(Tail(s)) ELSE s

RECURSIVE TrimRightBrackets(_)
TrimRightBrackets(s) ==
    IF s # <<>> /\ s[Len(s)] \in {"[", "]"}
      THEN TrimRightBrackets(SubSeq(s, 1, Len(s) - 1)) ELSE s

TrimBrackets(s) == TrimRightBrackets(TrimLeftBrackets(s))

\* fields[k] = v
Put(f, k, v) == [x \in DOMAIN f \cup {k} |-> IF x = k THEN v ELSE f[x]]

\* A value stored in a field map, with the call whose code produced it.
Val(c, v) == [owner |-> c, val |-> v]

\* path.Dir(info.FullMethod)[1:] and path.Base(info.FullMethod) of a full
\* method name "/" service "/" method, held as its four tokens.
PathDir(full) == SubSeq(full, 1, Len(full) - 2)
PathBase(full) == full[Len(full)]
ServiceOf(full) == Tail(PathDir(full))
MethodOf(full) == <<PathBase(full)>>

\* fmt.Sprintf("%s%s", requestID, v) for a metadata value v, which is a
\* []string: %s prints a slice as its elements between brackets.
RECURSIVE JoinSpace(_)
JoinSpace(vs) ==
    IF vs = <<>> THEN <<>>
    ELSE IF Len(vs) = 1 THEN <<vs[1]>>
    ELSE <<vs[1], " ">> \o JoinSpace(Tail(vs))

SprintSlice(vs) == <<"[">> \o JoinSpace(vs) \o <<"]">>

\* base64.URLEncoding.EncodeToString(sha1.Sum(requestID)): a one-way
\* function of the text, kept as the text under the two encodings.
RequestIdOf(text) == <<"base64url", <<"sha1", text>>>>

\* A logRequest that derives a request id for whatever metadata it finds.
MetadataFieldsAlwaysId(c, fields, md) ==
    IF ~md.ok THEN fields
    ELSE
      LET copied == [k \in DOMAIN fields \cup DOMAIN md.kv |->
                        IF k \in DOMAIN md.kv THEN Val(c, md.kv[k])
                        ELSE fields[k]]
          ua  == IF "user-agent" \in DOMAIN copied
                   THEN SprintSlice(copied["user-agent"].val) ELSE <<>>
          xff == IF "x-forwarded-for" \in DOMAIN copied
                   THEN SprintSlice(copied["x-forwarded-for"].val) ELSE <<>>
          requestID == ua \o xff
      IN  Put(copied, ":request-id", Val(c, RequestIdOf(requestID)))

\* logRequest, the metadata part: every metadata pair is copied into the
\* field map, then the request id is derived from the map's user-agent and
\* x-forwarded-for entries when one of them is there.  md.ok says whether
\* metadata.FromIncomingContext found metadata, md.kv is that metadata (a
\* function from keys to []string values).
MetadataFields(c, fields, md) ==
    IF ~md.ok THEN fields
    ELSE
      LET copied == [k \in DOMAIN fields \cup DOMAIN md.kv |->
                        IF k \in DOMAIN md.kv THEN Val(c, md.kv[k])
                        ELSE fields[k]]
          ua  == IF "user-agent" \in DOMAIN copied
                   THEN SprintSlice(copied["user-agent"].val) ELSE <<>>
          xff == IF "x-forwarded-for" \in DOMAIN copied
                   THEN SprintSlice(copied["x-forwarded-for"].val) ELSE <<>>
          requestID == ua \o xff
      IN  IF requestID # <<>>
            THEN Put(copied, ":request-id", Val(c, RequestIdOf(requestID)))
            ELSE copied

\* address != "" && !HasPrefix(address, "127.0.0.1") &&
\* !HasPrefix(address, "localhost"), negated.
PeerSuppressed(addr) ==
    addr = <<>> \/ HasPrefix(addr, Str127) \/ HasPrefix(addr, StrLocalhost)

\* address[:strings.LastIndexByte(address, ':')] panics (slice bounds out
\* of range) when the address holds no ':'.  peer.ok says whether
\* peer.FromContext found a peer, peer.addr is peerAddr.Addr.String().
PeerPanics(peer) ==
    peer.ok /\ ~PeerSuppressed(peer.addr) /\ LastIndexByte(peer.addr, ":") < 0

\* logRequest, the peer part: the field "peer" is the address up to its
\* last ':' with brackets trimmed, for an address that is not empty,
\* loopback or localhost.
PeerFields(c, fields, peer) ==
    IF ~peer.ok \/ PeerSuppressed(peer.addr) \/ PeerPanics(peer) THEN fields
    ELSE Put(fields, "peer",
             Val(c, TrimBrackets(
                      SubSeq(peer.addr, 1, LastIndexByte(peer.addr, ":")))))

\* The field map logRequest leaves behind and logs.
RequestFields(c, fields, md, peer) ==
    PeerFields(c, MetadataFields(c, fields, md), peer)

\* status.Code(err): OK for nil, the code of a status error, Unknown for
\* any other error.
StatusCode(err) ==
    IF err = "nil" THEN "OK" ELSE IF err = "plain" THEN "Unknown" ELSE err

\* The case clauses of the switch in DefaultCodeToLevel, each with the
\* level it returns.
CodeCases ==
    ("OK" :> "info") @@ ("Canceled" :> "info") @@
    ("InvalidArgument" :> "info") @@ ("NotFound" :> "info") @@
    ("AlreadyExists" :> "info") @@ ("Unauthenticated" :> "info") @@
    ("DeadlineExceeded" :> "warning") @@ ("PermissionDenied" :> "warning") @@
    ("ResourceExhausted" :> "warning") @@
    ("FailedPrecondition" :> "warning") @@ ("Aborted" :> "warning") @@
    ("OutOfRange" :> "warning") @@ ("Unavailable" :> "warning") @@
    ("Unknown" :> "error") @@ ("Unimplemented" :> "error") @@
    ("Internal" :> "error") @@ ("DataLoss" :> "error")

\* The table of a client-side variant, biased to lower levels, in place of
\* the server-side one.
ClientCodeToLevel(code) ==
    IF code = "OK" THEN "debug"
    ELSE IF code \in {"Canceled", "DeadlineExceeded", "Unavailable"}
      THEN "info"
    ELSE IF code \in DOMAIN CodeCases THEN CodeCases[code]
    ELSE "error"

\* DefaultCodeToLevel: the level of the matching case, ErrorLevel by the
\* default clause.
DefaultCodeToLevel(code) ==
    IF code \in DOMAIN CodeCases THEN CodeCases[code] ELSE "error"

\* ---- inputs of the calls

NoMetadata == [ok |-> FALSE, kv |-> <<>>]
NoPeer == [ok |-> FALSE, addr |-> <<>>]

\* The requests the calls are made with, in turn: a readiness probe from a
\* loopback peer with a user-agent, a liveness probe from a remote peer with
\* both identifying headers, and a call with neither metadata nor peer.
RequestList ==
    << [full |-> <<"/", "grpc.gateway.wrapper.K8S", "/", "ReadinessProbe">>,
        md   |-> [ok |-> TRUE,
                  kv |-> [k \in {"user-agent"} |-> <<"curl/7.0">>]],
        peer |-> [ok |-> TRUE,
                  addr |-> Str127 \o <<":", "5", "4", "3", "2", "1">>]],
       [full |-> <<"/", "grpc.gateway.wrapper.K8S", "/", "LivenessProbe">>,
        md   |-> [ok |-> TRUE,
                  kv |-> [k \in {"user-agent", "x-forwarded-for"} |->
                             IF k = "user-agent" THEN <<"kube-probe">>
                             ELSE <<"10.0.0.9">>]],
        peer |-> [ok |-> TRUE,
                  addr |-> <<"1", "0", ".", "0", ".", "0", ".", "5",
                             ":", "4", "4", "3">>]],
       [full |-> <<"/", "grpc.gateway.wrapper.K8S", "/", "LivenessProbe">>,
        md   |-> NoMetadata,
        peer |-> NoPeer] >>

\* The request of call c.
RequestOf(c) == RequestList[((c - 1) % Len(RequestList)) + 1]

\* What a handler returns in the concurrent model: nil or a status error.
HandlerErrs == {"nil", "Unavailable"}
\* What a send or receive on the underlying stream returns there.
MsgErrs == {"nil"}

Calls == 1..NCalls

\* codes.Code: the 17 status codes.
Codes ==
    {"OK", "Canceled", "Unknown", "InvalidArgument", "DeadlineExceeded",
     "NotFound", "AlreadyExists", "PermissionDenied", "ResourceExhausted",
     "FailedPrecondition", "Aborted", "OutOfRange", "Unimplemented",
     "Internal", "Unavailable", "DataLoss", "Unauthenticated"}

\* What a handler returns when one call is followed through all its inputs:
\* nil, an error that carries no status ("plain"), a status error of each
\* code, and a status error whose code is none of the 17 ("Code(99)").
CallErrs == {"nil", "plain", "Code(99)"} \cup (Codes \ {"OK"})

\* What a send or receive on the underlying stream returns there.
CallMsgErrs == {"nil", "Internal", "ResourceExhausted"}

\* Full method names.
ReadinessProbe == <<"/", "grpc.gateway.wrapper.K8S", "/", "ReadinessProbe">>
LivenessProbe == <<"/", "grpc.gateway.wrapper.K8S", "/", "LivenessProbe">>

\* Incoming metadata: a function from keys to []string values.
MdOf(kv) == [ok |-> TRUE, kv |-> kv]
MdUserAgent == MdOf("user-agent" :> <<"curl/7.0">>)
MdForwarded == MdOf("x-forwarded-for" :> <<"10.0.0.9">>)
MdBoth == MdOf(("user-agent" :> <<"curl/7.0">>) @@
               ("x-forwarded-for" :> <<"10.0.0.9">>))
MdUserAgentAndOther == MdOf(("user-agent" :> <<"curl/7.0">>) @@
                            ("content-type" :> <<"application/grpc">>))
MdOther == MdOf("content-type" :> <<"application/grpc">>)

\* A user-agent header sent with an empty value, and metadata whose keys
\* are names of base fields.
MdEmptyAgent == MdOf("user-agent" :> <<"">>)
MdSpoof == MdOf(("service" :> <<"spoofed">>) @@
                ("gateway-method" :> <<"spoofed">>))

\* Peer addresses, peerAddr.Addr.String(): TCP addresses over IPv4 and IPv6,
\* the empty address, and the address of a unix-domain socket without a
\* name, which holds no ':'.
PeerOf(addr) == [ok |-> TRUE, addr |-> addr]
AddrLoopback == Str127 \o <<":", "5", "4", "3", "2", "1">>
AddrRemote == <<"1", "0", ".", "0", ".", "0", ".", "5", ":", "4", "4", "3">>
AddrRemote6 ==
    <<"[", "2", "0", "0", "1", ":", "d", "b", "8", ":", ":", "1", "]",
      ":", "4", "4", "3">>
AddrLoopback6 == <<"[", ":", ":", "1", "]", ":", "4", "4", "3">>
AddrLocalhost == StrLocalhost \o <<":", "8", "0">>
AddrUnix == <<"@">>

\* The requests one call is followed through.
CallRequests ==
    { [full |-> ReadinessProbe, md |-> MdUserAgent,
       peer |-> PeerOf(AddrLoopback)],
      [full |-> LivenessProbe, md |-> MdBoth, peer |-> PeerOf(AddrRemote)],
      [full |-> LivenessProbe, md |-> NoMetadata, peer |-> NoPeer],
      [full |-> ReadinessProbe, md |-> MdForwarded,
       peer |-> PeerOf(AddrRemote6)],
      [full |-> LivenessProbe, md |-> MdUserAgentAndOther,
       peer |-> PeerOf(AddrLoopback6)],
      [full |-> ReadinessProbe, md |-> MdOther,
       peer |-> PeerOf(AddrLocalhost)],
      [full |-> LivenessProbe, md |-> MdUserAgent, peer |-> PeerOf(<<>>)],
      [full |-> ReadinessProbe, md |-> MdUserAgent,
       peer |-> PeerOf(AddrUnix)],
      [full |-> LivenessProbe, md |-> MdEmptyAgent, peer |-> NoPeer],
      [full |-> ReadinessProbe, md |-> MdSpoof,
       peer |-> PeerOf(AddrRemote)] }

\* ---- state of the interceptors

\* The objects that can hold a field map: the map literal of an
\* interceptor's invocation for call c is object c, the map literal of
\* logResponse's invocation for call c is object NCalls + c.
Objects == 1..(2 * NCalls)

\* One map for all invocations (a package-level map) in place of the map
\* literal.
AllocShared(c) == 1

\* fields := map[string]interface{}{...} in the interceptor serving call c:
\* every invocation makes an object of its own.
Alloc(c) == c

\* fields = map[string]interface{}{} in logResponse for call c.
AllocResponse(c) == NCalls + c

\* log.WithFields(fields): a new entry whose data is a copy of the fields.
Entry(c, msg, level, data) ==
    [call |-> c, msg |-> msg, level |-> level, data |-> data]

\* A levelLog whose switch has no case for the warning level: an entry of
\* that level is not logged.
levelLogNoWarning(lg, e) ==
    IF e.level \in {"debug", "info", "error", "fatal", "panic"}
      THEN Append(lg, e)
      ELSE lg

\* levelLog(entry, level, msg): the switch on the level logs the entry by
\* the method of the matching case, and nothing for a level without a case.
levelLog(lg, e) ==
    IF e.level \in {"debug", "info", "warning", "error", "fatal", "panic"}
      THEN Append(lg, e)
      ELSE lg

InitLog ==
    /\ li \in [LogStreamRecvMsg : BOOLEAN, LogStreamSendMsg : BOOLEAN,
               LogUnaryReqMsg : BOOLEAN]
    /\ callPc = [c \in Calls |-> "idle"]
    /\ callIn = [c \in Calls |-> [kind |-> "none"]]
    /\ callFields = [c \in Calls |-> 0]
    /\ heap = [o \in Objects |-> <<>>]
    /\ streamEntry = [c \in Calls |-> <<>>]
    /\ callErr = [c \in Calls |-> "nil"]
    /\ callMsgs = [c \in Calls |-> 0]
    /\ log = [c \in Calls |-> <<>>]
    /\ handlerArgs = [c \in Calls |-> <<>>]
    /\ callOps = [c \in Calls |-> <<>>]
    /\ wrapRets = [c \in Calls |-> <<>>]
    /\ callRet = [c \in Calls |-> [resp |-> "none", err |-> "none"]]

\* UnaryInterceptor up to the handler call: the base fields, the request
\* payload if LogUnaryReqMsg, logRequest, context.WithValue(ctx, ctxKey{},
\* fields).  A panic inside logRequest ends the call before anything is
\* logged.
UnaryBegin(c, r) ==
    LET obj  == Alloc(c)
        base == Put(Put(heap[obj],
                        "gateway-service", Val(c, ServiceOf(r.full))),
                    "gateway-method", Val(c, MethodOf(r.full)))
        withReq == IF li.LogUnaryReqMsg
                     THEN Put(base, "gateway-request", Val(c, <<"NilMsg">>))
                     ELSE base
        fields == RequestFields(c, withReq, r.md, r.peer)
    IN  /\ callPc[c] = "idle"
        /\ callIn' = [callIn EXCEPT ![c] =
                        [kind |-> "unary", full |-> r.full, md |-> r.md,
                         peer |-> r.peer]]
        /\ heap' = [heap EXCEPT ![obj] = fields]
        /\ IF PeerPanics(r.peer)
             THEN /\ callPc' = [callPc EXCEPT ![c] = "panicked"]
                  /\ UNCHANGED <<callFields, log, handlerArgs>>
             ELSE /\ callPc' = [callPc EXCEPT ![c] = "handling"]
                  /\ callFields' = [callFields EXCEPT ![c] = obj]
                  /\ log' = [log EXCEPT ![c] =
                               Append(@, Entry(c, "request (unary)", "info",
                                               fields))]
                  /\ handlerArgs' = [handlerArgs EXCEPT ![c] =
                                       Append(@, "req")]
        /\ UNCHANGED <<li, streamEntry, callErr, callMsgs, callOps, wrapRets,
                       callRet, srvVars, codecVars>>

\* StreamInterceptor with logRequest moved behind the handler call: the
\* call begins without its request entry.
StreamBeginLogsLater(c, r) ==
    LET obj  == Alloc(c)
        base == Put(Put(heap[obj],
                        "service", Val(c, ServiceOf(r.full))),
                    "method", Val(c, MethodOf(r.full)))
        fields == RequestFields(c, base, r.md, r.peer)
    IN  /\ callPc[c] = "idle"
        /\ callIn' = [callIn EXCEPT ![c] =
                        [kind |-> "stream", full |-> r.full, md |-> r.md,
                         peer |-> r.peer]]
        /\ heap' = [heap EXCEPT ![obj] = fields]
        /\ streamEntry' = [streamEntry EXCEPT ![c] = base]
        /\ callPc' = [callPc EXCEPT ![c] = "handling"]
        /\ callFields' = [callFields EXCEPT ![c] = obj]
        /\ handlerArgs' = [handlerArgs EXCEPT ![c] = Append(@, "stream")]
        /\ UNCHANGED <<li, callErr, callMsgs, log, callOps, wrapRets, callRet,
                       srvVars, codecVars>>

\* StreamInterceptor up to the handler call: the base fields, streamEntry
\* (a log entry holding a copy of the base fields), logRequest,
\* wrapped.WrappedContext = context.WithValue(ctx, ctxKey{}, fields).
StreamBegin(c, r) ==
    LET obj  == Alloc(c)
        base == Put(Put(heap[obj],
                        "service", Val(c, ServiceOf(r.full))),
                    "method", Val(c, MethodOf(r.full)))
        fields == RequestFields(c, base, r.md, r.peer)
    IN  /\ callPc[c] = "idle"
        /\ callIn' = [callIn EXCEPT ![c] =
                        [kind |-> "stream", full |-> r.full, md |-> r.md,
                         peer |-> r.peer]]
        /\ heap' = [heap EXCEPT ![obj] = fields]
        /\ streamEntry' = [streamEntry EXCEPT ![c] = base]
        /\ IF PeerPanics(r.peer)
             THEN /\ callPc' = [callPc EXCEPT ![c] = "panicked"]
                  /\ UNCHANGED <<callFields, log, handlerArgs>>
             ELSE /\ callPc' = [callPc EXCEPT ![c] = "handling"]
                  /\ callFields' = [callFields EXCEPT ![c] = obj]
                  /\ log' = [log EXCEPT ![c] =
                               Append(@, Entry(c, "request (stream)", "info",
                                               fields))]
                  /\ handlerArgs' = [handlerArgs EXCEPT ![c] =
                                       Append(@, "stream")]
        /\ UNCHANGED <<li, callErr, callMsgs, callOps, wrapRets, callRet,
                       srvVars, codecVars>>

\* The handler (or an interceptor further down the chain) takes the field
\* map out of its context and adds a field to it.
HandlerPut(c) ==
    /\ callPc[c] = "handling"
    /\ "handler" \notin DOMAIN heap[callFields[c]]
    /\ heap' = [heap EXCEPT ![callFields[c]] =
                   Put(@, "handler", Val(c, <<"added">>))]
    /\ UNCHANGED <<li, callPc, callIn, callFields, streamEntry, callErr,
                   callMsgs, log, traceVars, srvVars, codecVars>>

\* logProtoMessageAsJSON(l.entry, m, code, "value", msg): the stream's
\* entry with the message (when it is a proto.Message) and the code, at the
\* level of the code.
MessageEntry(c, code, isProto, msg) ==
    Entry(c, msg, DefaultCodeToLevel(code),
          Put(IF isProto
                THEN Put(streamEntry[c], "value", Val(c, <<"jsonpb">>))
                ELSE streamEntry[c],
              "code", Val(c, <<code>>)))

\* A SendMsg that reads the flag of the other direction.
SendMsgGatedByRecv(c, err, isProto) ==
    /\ callPc[c] = "handling"
    /\ callIn[c].kind = "stream"
    /\ callMsgs[c] < MaxMsgs
    /\ callMsgs' = [callMsgs EXCEPT ![c] = @ + 1]
    /\ log' = IF li.LogStreamRecvMsg
                THEN [log EXCEPT ![c] =
                        levelLog(@, MessageEntry(c, StatusCode(err), isProto,
                                                 "StreamSend"))]
                ELSE log
    /\ callOps' = [callOps EXCEPT ![c] =
                     Append(@, [dir |-> "send", err |-> err, proto |-> isProto])]
    /\ wrapRets' = [wrapRets EXCEPT ![c] = Append(@, err)]
    /\ UNCHANGED <<li, callPc, callIn, callFields, heap, streamEntry,
                   callErr, handlerArgs, callRet, srvVars, codecVars>>

\* loggingServerStream.SendMsg: the underlying send, then the log entry if
\* LogStreamSendMsg.
SendMsg(c, err, isProto) ==
    /\ callPc[c] = "handling"
    /\ callIn[c].kind = "stream"
    /\ callMsgs[c] < MaxMsgs
    /\ callMsgs' = [callMsgs EXCEPT ![c] = @ + 1]
    /\ log' = IF li.LogStreamSendMsg
                THEN [log EXCEPT ![c] =
                        levelLog(@, MessageEntry(c, StatusCode(err), isProto,
                                                 "StreamSend"))]
                ELSE log
    /\ callOps' = [callOps EXCEPT ![c] =
                     Append(@, [dir |-> "send", err |-> err, proto |-> isProto])]
    /\ wrapRets' = [wrapRets EXCEPT ![c] = Append(@, err)]
    /\ UNCHANGED <<li, callPc, callIn, callFields, heap, streamEntry,
                   callErr, handlerArgs, callRet, srvVars, codecVars>>

\* loggingServerStream.RecvMsg: the underlying receive, then the log entry
\* if LogStreamRecvMsg.
RecvMsg(c, err, isProto) ==
    /\ callPc[c] = "handling"
    /\ callIn[c].kind = "stream"
    /\ callMsgs[c] < MaxMsgs
    /\ callMsgs' = [callMsgs EXCEPT ![c] = @ + 1]
    /\ log' = IF li.LogStreamRecvMsg
                THEN [log EXCEPT ![c] =
                        levelLog(@, MessageEntry(c, StatusCode(err), isProto,
                                                 "StreamRecv"))]
                ELSE log
    /\ callOps' = [callOps EXCEPT ![c] =
                     Append(@, [dir |-> "recv", err |-> err, proto |-> isProto])]
    /\ wrapRets' = [wrapRets EXCEPT ![c] = Append(@, err)]
    /\ UNCHANGED <<li, callPc, callIn, callFields, heap, streamEntry,
                   callErr, handlerArgs, callRet, srvVars, codecVars>>

\* What a handler returns beside its error: a unary handler its response
\* (the probe result, nil with an error), a stream handler nothing.
HandlerResp(kind, err) ==
    IF kind = "stream" THEN "none"
    ELSE IF err = "nil" THEN "ProbeResult" ELSE "nil"

\* handler(ctx, req) / handler(srv, stream) returns.
HandlerReturn(c, err) ==
    /\ callPc[c] = "handling"
    /\ callPc' = [callPc EXCEPT ![c] = "returned"]
    /\ callErr' = [callErr EXCEPT ![c] = err]
    /\ UNCHANGED <<li, callIn, callFields, heap, streamEntry, callMsgs, log,
                   traceVars, srvVars, codecVars>>

\* logResponse finding no field map in the context it is given: it logs a
\* new map.
LogResponseNewMap(c) ==
    LET obj  == AllocResponse(c)
        code == StatusCode(callErr[c])
        fields == Put(Put(Put(heap[obj],
                              "elapsed", Val(c, <<"time.Since(start)">>)),
                          "start", Val(c, <<"start">>)),
                      "code", Val(c, <<code>>))
    IN  /\ callPc[c] = "returned"
        /\ callPc' = [callPc EXCEPT ![c] = "done"]
        /\ heap' = [heap EXCEPT ![obj] = fields]
        /\ log' = [log EXCEPT ![c] =
                     levelLog(@, Entry(c, IF callIn[c].kind = "unary"
                                            THEN "response (unary)"
                                            ELSE "response (stream)",
                                       DefaultCodeToLevel(code), fields))]
        /\ callRet' = [callRet EXCEPT ![c] =
                         [resp |-> HandlerResp(callIn[c].kind, callErr[c]),
                          err |-> callErr[c]]]
        /\ UNCHANGED <<li, callIn, callFields, streamEntry, callErr,
                       callMsgs, handlerArgs, callOps, wrapRets, srvVars,
                       codecVars>>

\* logResponse(ctx, start, err, msg): the field map of the context (a new
\* one if the context holds none) gets elapsed, start and code and is
\* logged at the level of the code; the interceptor returns what the
\* handler returned.
LogResponse(c) ==
    LET obj  == IF callFields[c] # 0 THEN callFields[c] ELSE AllocResponse(c)
        code == StatusCode(callErr[c])
        fields == Put(Put(Put(heap[obj],
                              "elapsed", Val(c, <<"time.Since(start)">>)),
                          "start", Val(c, <<"start">>)),
                      "code", Val(c, <<code>>))
    IN  /\ callPc[c] = "returned"
        /\ callPc' = [callPc EXCEPT ![c] = "done"]
        /\ heap' = [heap EXCEPT ![obj] = fields]
        /\ log' = [log EXCEPT ![c] =
                     levelLog(@, Entry(c, IF callIn[c].kind = "unary"
                                            THEN "response (unary)"
                                            ELSE "response (stream)",
                                       DefaultCodeToLevel(code), fields))]
        /\ callRet' = [callRet EXCEPT ![c] =
                         [resp |-> HandlerResp(callIn[c].kind, callErr[c]),
                          err |-> callErr[c]]]
        /\ UNCHANGED <<li, callIn, callFields, streamEntry, callErr,
                       callMsgs, handlerArgs, callOps, wrapRets, srvVars,
                       codecVars>>

\* ------------------------------------------------------------------ codecs

\* A message type as its declared fields: the name declared in the .proto
\* file, the lowerCamelCase JSON name protoc derives from it, and the type.
Schema ==
    << [name |-> "fail", json |-> "fail", type |-> "bool"],
       [name |-> "name", json |-> "name", type |-> "string"],
       [name |-> "count", json |-> "count", type |-> "int32"],
       [name |-> "user_name", json |-> "userName", type |-> "string"],
       [name |-> "total", json |-> "total", type |-> "int64"] >>

FieldNames == {Schema[i].name : i \in 1..Len(Schema)}
FieldOf(n) == CHOOSE i \in 1..Len(Schema) : Schema[i].name = n
TypeOf(n) == Schema[FieldOf(n)].type
JsonNameOf(n) == Schema[FieldOf(n)].json

\* The zero value of a type; texts are sequences of characters.
Zero(type) ==
    IF type = "bool" THEN FALSE ELSE IF type = "string" THEN <<>> ELSE 0

\* The values a field takes here: the zero value and another one.
ValuesOf(type) ==
    IF type = "bool" THEN {FALSE, TRUE}
    ELSE IF type = "string" THEN {<<>>, <<"f", "o", "o">>}
    ELSE IF type = "int32" THEN {0, 3}
    ELSE {0, 12}

ZeroMsg == [n \in FieldNames |-> Zero(TypeOf(n))]
Messages ==
    [fail : ValuesOf(TypeOf("fail")), name : ValuesOf(TypeOf("name")),
     count : ValuesOf(TypeOf("count")),
     user_name : ValuesOf(TypeOf("user_name")),
     total : ValuesOf(TypeOf("total"))]

\* A value that is no proto.Message: a map[string]string.
PlainValues == {[greeting |-> <<"h", "i">>]}

\* strconv: a number as its decimal digits and back.
Digit(d) == <<"0", "1", "2", "3", "4", "5", "6", "7", "8", "9">>[d + 1]
IsDigit(ch) == ch \in {Digit(d) : d \in 0..9}
DigitVal(ch) == CHOOSE d \in 0..9 : Digit(d) = ch

RECURSIVE FormatInt(_)
FormatInt(n) ==
    IF n < 10 THEN <<Digit(n)>>
    ELSE Append(FormatInt(n \div 10), Digit(n % 10))

RECURSIVE ParseDigits(_)
ParseDigits(s) ==
    IF Len(s) = 1 THEN DigitVal(s[1])
    ELSE 10 * ParseDigits(SubSeq(s, 1, Len(s) - 1)) + DigitVal(s[Len(s)])

\* strconv.ParseInt(s, 10, bits) for texts without sign.
ParseInt(s) ==
    IF s # <<>> /\ \A i \in 1..Len(s) : IsDigit(s[i])
      THEN [ok |-> TRUE, n |-> ParseDigits(s)]
      ELSE [ok |-> FALSE, n |-> 0]

\* ---- the JSON codec (package jsonpb of the repository)

\* A JSON value carries its JSON type.
JBool(b) == [t |-> "bool", v |-> b]
JString(x) == [t |-> "string", v |-> x]
JNumber(n) == [t |-> "number", v |-> n]
JNull == [t |-> "null", v |-> 0]

\* jsonpb.Marshaler on one field value: bool as a JSON bool, string as a
\* JSON string, int32 as a JSON number, int64 as a JSON string of digits.
JsonOfField(type, val) ==
    IF type = "bool" THEN JBool(val)
    ELSE IF type = "string" THEN JString(val)
    ELSE IF type = "int32" THEN JNumber(val)
    ELSE JString(FormatInt(val))

\* jsonpb.Marshaler.Marshal(b, pm): a JSON object holding each field under
\* its declared name (OrigName) or its JSON name; a field at its zero value
\* is written only with EmitDefaults.
PbMarshal(opts, m) ==
    LET emitted == {n \in FieldNames :
                       opts.EmitDefaults \/ m[n] # Zero(TypeOf(n))}
        KeyOf(n) == IF opts.OrigName THEN n ELSE JsonNameOf(n)
    IN  [k \in {KeyOf(n) : n \in emitted} |->
            LET n == CHOOSE x \in emitted : KeyOf(x) = k
            IN  JsonOfField(TypeOf(n), m[n])]

\* defaultOpts with EmitDefaults left off.
OptsOmitDefaults == [EmitDefaults |-> FALSE, OrigName |-> TRUE]

\* var defaultOpts = jsonpb.Marshaler{EmitDefaults: true, OrigName: true}
defaultOpts == [EmitDefaults |-> TRUE, OrigName |-> TRUE]

\* jsonpb.Unmarshaler on one field: the JSON value converted to the field's
\* type; a quoted number is taken for a numeric field.
FieldOfJson(type, j) ==
    IF type = "bool"
      THEN [ok |-> j.t = "bool", val |-> IF j.t = "bool" THEN j.v ELSE FALSE]
    ELSE IF type = "string"
      THEN [ok |-> j.t = "string",
            val |-> IF j.t = "string" THEN j.v ELSE <<>>]
    ELSE IF j.t = "number" THEN [ok |-> TRUE, val |-> j.v]
    ELSE IF j.t = "string"
      THEN [ok |-> ParseInt(j.v).ok, val |-> ParseInt(j.v).n]
    ELSE [ok |-> FALSE, val |-> 0]

\* The field a JSON key names: by declared name or by JSON name.
FieldForKey(k) ==
    IF \E n \in FieldNames : k \in {n, JsonNameOf(n)}
      THEN [ok |-> TRUE,
            name |-> CHOOSE n \in FieldNames : k \in {n, JsonNameOf(n)}]
      ELSE [ok |-> FALSE, name |-> ""]

\* jsonpb.Unmarshaler.Unmarshal(b, pm) into a new message: every key must
\* name a field (AllowUnknownFields is off) and every value must convert;
\* null leaves the field alone.
PbUnmarshal(obj) ==
    LET bad == {k \in DOMAIN obj :
                   \/ ~FieldForKey(k).ok
                   \/ /\ obj[k].t # "null"
                      /\ ~FieldOfJson(TypeOf(FieldForKey(k).name), obj[k]).ok}
        Given(n) == {k \in DOMAIN obj : FieldForKey(k).ok
                        /\ FieldForKey(k).name = n /\ obj[k].t # "null"}
    IN  IF bad # {} THEN [err |-> "unmarshal", msg |-> ZeroMsg]
        ELSE [err |-> "nil",
              msg |-> [n \in FieldNames |->
                         IF Given(n) = {} THEN Zero(TypeOf(n))
                         ELSE FieldOfJson(TypeOf(n),
                                obj[CHOOSE k \in Given(n) : TRUE]).val]]

\* A value handed to the codec: a proto.Message or something else.
PbValue(m) == [proto |-> TRUE, val |-> m]
PlainValue(x) == [proto |-> FALSE, val |-> x]

\* jsonMarshaler.Marshal(v): jsonpb for a proto.Message, encoding/json
\* (an object of strings for a map[string]string) for anything else.
Marshal(opts, v) ==
    IF v.proto THEN PbMarshal(opts, v.val)
    ELSE [k \in DOMAIN v.val |-> JString(v.val[k])]

\* jsonMarshaler.Unmarshal(data, v): jsonpb for a proto.Message, encoding/
\* json into a map[string]string for anything else.
Unmarshal(obj, isProto) ==
    IF isProto THEN PbUnmarshal(obj)
    ELSE IF \A k \in DOMAIN obj : obj[k].t = "string"
      THEN [err |-> "nil", msg |-> [k \in DOMAIN obj |-> obj[k].v]]
      ELSE [err |-> "unmarshal", msg |-> <<>>]

\* JSON documents a peer sends: JSON names instead of declared names, a
\* null, a key that names no field, a value of the wrong type.
PeerDocs ==
    { ("userName" :> JString(<<"f", "o", "o">>)) @@ ("count" :> JNumber(3)),
      ("fail" :> JNull) @@ ("total" :> JString(<<"1", "2">>)),
      ("bogus" :> JNumber(1)),
      ("count" :> JString(<<"a", "b", "c">>)) }

InitCodec ==
    /\ codecPc = "idle"
    /\ codecIn = <<>>
    /\ wire = <<>>
    /\ codecOut = <<>>

\* The registered codec encodes v.
JsonMarshal(v) ==
    /\ codecPc = "idle"
    /\ codecPc' = "encoded"
    /\ codecIn' = v
    /\ wire' = Marshal(defaultOpts, v)
    /\ UNCHANGED <<codecOut, srvVars, logVars>>

\* Bytes arrive from a peer, to be decoded into a proto.Message.
JsonReceive(doc) ==
    /\ codecPc = "idle"
    /\ codecPc' = "received"
    /\ codecIn' = PbValue(ZeroMsg)
    /\ wire' = doc
    /\ UNCHANGED <<codecOut, srvVars, logVars>>

\* The registered codec decodes the bytes into a new value of the kind that
\* was encoded.
JsonUnmarshal ==
    /\ codecPc \in {"encoded", "received"}
    /\ codecPc' = IF codecPc = "encoded" THEN "decoded" ELSE "peerDecoded"
    /\ codecOut' = Unmarshal(wire, codecIn.proto)
    /\ UNCHANGED <<codecIn, wire, srvVars, logVars>>

\* ---- the form codec (package http of the repository)

\* Form bodies: key=value pairs joined by '&'.  A value is a text; "%zz"
\* stands for a percent sign that no two hexadecimal digits follow.
Pair(k, v) == [k |-> k, v |-> v]
FormPairs ==
    { Pair("name", <<"f", "o", "o">>),
      Pair("count", <<"3">>),
      Pair("count", <<"a", "b", "c">>),
      Pair("fail", <<"t", "r", "u", "e">>),
      Pair("bogus", <<"1">>),
      Pair("name", <<"%zz">>) }

\* Bodies of up to n pairs.
RECURSIVE BodiesUpTo(_)
BodiesUpTo(n) ==
    IF n = 0 THEN {<<>>}
    ELSE BodiesUpTo(n - 1) \cup
         {Append(b, p) : b \in {x \in BodiesUpTo(n - 1) : Len(x) = n - 1},
                         p \in FormPairs}

\* url.QueryUnescape fails on a malformed escape.
UnescapeOk(text) == \A i \in 1..Len(text) : text[i] # "%zz"

\* url.ParseQuery: the values of every key in the order of the body; a pair
\* that cannot be unescaped is left out and makes the error.
RECURSIVE ValuesOfKey(_, _)
ValuesOfKey(body, k) ==
    IF body = <<>> THEN <<>>
    ELSE IF Head(body).k = k /\ UnescapeOk(Head(body).v)
      THEN <<Head(body).v>> \o ValuesOfKey(Tail(body), k)
      ELSE ValuesOfKey(Tail(body), k)

ParseQuery(body) ==
    LET good == {i \in 1..Len(body) : UnescapeOk(body[i].v)}
    IN  [err |-> good # 1..Len(body),
         values |-> [k \in {body[i].k : i \in good} |->
                        ValuesOfKey(body, k)]]

\* strconv.ParseBool
ParseBool(text) ==
    IF text \in {<<"1">>, <<"t">>, <<"T">>, <<"t", "r", "u", "e">>,
                 <<"T", "R", "U", "E">>, <<"T", "r", "u", "e">>}
      THEN [ok |-> TRUE, b |-> TRUE]
    ELSE IF text \in {<<"0">>, <<"f">>, <<"F">>, <<"f", "a", "l", "s", "e">>,
                      <<"F", "A", "L", "S", "E">>,
                      <<"F", "a", "l", "s", "e">>}
      THEN [ok |-> TRUE, b |-> FALSE]
    ELSE [ok |-> FALSE, b |-> FALSE]

\* runtime.populateField: the text converted to the type of the field.
FormConvert(type, text) ==
    IF type = "string" THEN [ok |-> TRUE, val |-> text]
    ELSE IF type = "bool"
      THEN [ok |-> ParseBool(text).ok, val |-> ParseBool(text).b]
    ELSE [ok |-> ParseInt(text).ok, val |-> ParseInt(text).n]

\* runtime.populateFieldValueFromPath for one key: a key that names no
\* field of the message is logged and skipped without an error; a scalar
\* field takes one value, which must convert.
PopulateField(msg, k, vals) ==
    IF k \notin FieldNames /\ ~\E n \in FieldNames : JsonNameOf(n) = k
      THEN [err |-> FALSE, msg |-> msg]
    ELSE
      LET n == CHOOSE x \in FieldNames : k \in {x, JsonNameOf(x)}
      IN  IF Len(vals) > 1 \/ ~FormConvert(TypeOf(n), vals[1]).ok
            THEN [err |-> TRUE, msg |-> msg]
            ELSE [err |-> FALSE,
                  msg |-> [msg EXCEPT
                             ![n] = FormConvert(TypeOf(n), vals[1]).val]]

\* runtime.PopulateQueryParameters: the keys are taken in the order the map
\* of values is ranged over (any order); the first error ends it, with the
\* fields set so far left in the message.
RECURSIVE Populate(_, _, _)
Populate(msg, values, order) ==
    IF order = <<>> THEN [err |-> FALSE, msg |-> msg]
    ELSE LET r == PopulateField(msg, Head(order), values[Head(order)])
         IN  IF r.err THEN r ELSE Populate(r.msg, values, Tail(order))

\* The orders a set of keys can be ranged over.
Orders(keys) ==
    {o \in [1..Cardinality(keys) -> keys] :
        \A i, j \in 1..Cardinality(keys) : i # j => o[i] # o[j]}

\* decodeForm(d, v): v must be a proto.Message; the body is read, parsed
\* and populated into it.  readOk says whether ioutil.ReadAll succeeds.
decodeForm(v, body, readOk, order) ==
    IF ~v.proto
      THEN [err |-> "not proto message", read |-> FALSE, msg |-> v.val]
    ELSE IF ~readOk
      THEN [err |-> "read", read |-> TRUE, msg |-> v.val]
    ELSE IF ParseQuery(body).err
      THEN [err |-> "parse", read |-> TRUE, msg |-> v.val]
    ELSE LET r == Populate(v.val, ParseQuery(body).values, order)
         IN  [err |-> IF r.err THEN "populate" ELSE "nil",
              read |-> TRUE, msg |-> r.msg]

\* Form.Unmarshal / the Decoder of Form.NewDecoder decodes a body into v.
DecodeForm(v, body, readOk) ==
    /\ codecPc = "idle"
    /\ \E order \in Orders(DOMAIN ParseQuery(body).values) :
          codecOut' = decodeForm(v, body, readOk, order)
    /\ codecPc' = "formDecoded"
    /\ codecIn' = [proto |-> v.proto, val |-> v.val, body |-> body]
    /\ UNCHANGED <<wire, srvVars, logVars>>

\* ---------------------------------------------------------- specification

\* The service host alone, with an interceptor that logs no payload.
Init ==
    /\ InitServer
    /\ InitLog
    /\ InitCodec
    /\ li = [LogStreamRecvMsg |-> FALSE, LogStreamSendMsg |-> FALSE,
             LogUnaryReqMsg |-> FALSE]

NextServer ==
    \/ ParentCancel
    \/ New
    \/ SpawnGrpcTask
    \/ SpawnHttpTask
    \/ SpawnHandler
    \/ ShutdownCancel
    \/ ShutdownReturn
    \/ GrpcListenOk
    \/ GrpcListenFail
    \/ GrpcServeBegin
    \/ GrpcAccept
    \/ GrpcCallFinish
    \/ GrpcAcceptError
    \/ GrpcServeReturn
    \/ GrpcCancel
    \/ GrpcPanic
    \/ HttpServeClosedEarly
    \/ HttpListenOk
    \/ HttpListenFail
    \/ HttpServeBegin
    \/ HttpAccept
    \/ HttpConnFinish
    \/ HttpAcceptError
    \/ HttpServeClosed
    \/ HttpCancel
    \/ HttpPanic
    \/ Abort
    \/ HandlerWake
    \/ HandlerSpawnHttpStop
    \/ GrpcStopBegin
    \/ GrpcStopReturn
    \/ GrpcStopComplete
    \/ HttpStopBegin
    \/ HttpStopDrained
    \/ HttpStopTimeout
    \/ HttpStopComplete

Next == NextServer

Spec == Init /\ [][Next]_vars

\* The Go scheduler runs every runnable goroutine: each step a goroutine of
\* the host can take on its own is taken eventually.  What the environment
\* decides (a bind or accept failure, a new connection, the caller's calls,
\* the parent's cancellation) carries no fairness; in-flight calls and
\* connections are assumed to finish, and the drain deadline to pass.
FairServer ==
    /\ WF_vars(ShutdownReturn)
    /\ WF_vars(GrpcListenOk \/ GrpcListenFail)
    /\ WF_vars(GrpcServeBegin)
    /\ WF_vars(GrpcServeReturn)
    /\ WF_vars(GrpcCancel)
    /\ WF_vars(GrpcPanic)
    /\ WF_vars(GrpcCallFinish)
    /\ WF_vars(HttpServeClosedEarly)
    /\ WF_vars(HttpListenOk \/ HttpListenFail)
    /\ WF_vars(HttpServeBegin)
    /\ WF_vars(HttpServeClosed)
    /\ WF_vars(HttpCancel)
    /\ WF_vars(HttpPanic)
    /\ WF_vars(Abort)
    /\ WF_vars(HandlerWake)
    /\ WF_vars(HandlerSpawnHttpStop)
    /\ WF_vars(GrpcStopBegin)
    /\ WF_vars(GrpcStopReturn)
    /\ WF_vars(GrpcStopComplete)
    /\ WF_vars(HttpStopBegin)
    /\ WF_vars(HttpStopDrained \/ HttpStopTimeout)
    /\ WF_vars(HttpStopComplete)

FairSpec == Spec /\ FairServer

\* The interceptors alone, serving NCalls concurrent calls.
InitCalls ==
    /\ InitLog
    /\ InitCodec
    /\ li.LogStreamRecvMsg = li.LogStreamSendMsg
    /\ li.LogStreamSendMsg = li.LogUnaryReqMsg
    /\ InitServer
    /\ ~parentDone
    /\ grpcServer = "srv"

NextLog ==
    \/ \E c \in Calls : UnaryBegin(c, RequestOf(c))
    \/ \E c \in Calls : StreamBegin(c, RequestOf(c))
    \/ \E c \in Calls : HandlerPut(c)
    \/ \E c \in Calls, err \in MsgErrs : SendMsg(c, err, TRUE)
    \/ \E c \in Calls, err \in MsgErrs : RecvMsg(c, err, TRUE)
    \/ \E c \in Calls, err \in HandlerErrs : HandlerReturn(c, err)
    \/ \E c \in Calls : LogResponse(c)

SpecLog == InitCalls /\ [][NextLog]_vars

\* The interceptors serving one call, followed through every setting of
\* the flags, every request, every message and every handler result.
InitCall ==
    /\ InitLog
    /\ InitCodec
    /\ InitServer
    /\ ~parentDone
    /\ grpcServer = "srv"

NextCall ==
    \/ \E r \in CallRequests : UnaryBegin(1, r)
    \/ \E r \in CallRequests : StreamBegin(1, r)
    \/ HandlerPut(1)
    \/ \E err \in CallMsgErrs, isProto \in BOOLEAN : SendMsg(1, err, isProto)
    \/ \E err \in CallMsgErrs, isProto \in BOOLEAN : RecvMsg(1, err, isProto)
    \/ \E err \in CallErrs : HandlerReturn(1, err)
    \/ LogResponse(1)

SpecCall == InitCall /\ [][NextCall]_vars

\* The codecs alone: a value is encoded and decoded back, a document of a
\* peer is decoded, a form body is decoded.
InitCodecs ==
    /\ InitCodec
    /\ InitLog
    /\ li = [LogStreamRecvMsg |-> FALSE, LogStreamSendMsg |-> FALSE,
             LogUnaryReqMsg |-> FALSE]
    /\ InitServer
    /\ ~parentDone
    /\ grpcServer = "srv"

NextCodec ==
    \/ \E m \in Messages : JsonMarshal(PbValue(m))
    \/ \E x \in PlainValues : JsonMarshal(PlainValue(x))
    \/ \E doc \in PeerDocs : JsonReceive(doc)
    \/ JsonUnmarshal
    \/ \E v \in {PbValue(ZeroMsg)} \cup {PlainValue(x) : x \in PlainValues},
          body \in BodiesUpTo(MaxPairs), readOk \in BOOLEAN :
           DecodeForm(v, body, readOk)

SpecCodec == InitCodecs /\ [][NextCodec]_vars

\* ------------------------------------------------------------------ claims

\* A listener is accepting connections.
GrpcAccepting == grpcPc = "serving" /\ grpcLis = "open"
HttpAccepting == httpPc = "serving" /\ httpLis = "open"

\* C1: when Shutdown() returns, both shutdown tasks (the GracefulStop task
\* and the HTTP drain task) have run to completion.
C1_ShutdownJoinsTasks ==
    (mainPc = "returned" /\ grpcErr = "none" /\ httpErr = "none" /\ ~aborted)
        => grpcStopPc = "done" /\ httpStopPc = "done"

\* C2: after Shutdown() has returned, neither listener accepts a new
\* connection (neither listener is even open) and the WaitGroup counter is
\* exactly zero.
C2_AfterShutdown ==
    shutdownReturns > 0 =>
        /\ wg = 0
        /\ ~GrpcAccepting /\ grpcLis # "open"
        /\ ~HttpAccepting /\ httpLis # "open"

\* C2 witness: Shutdown() has returned from a host whose two listeners were
\* both serving and met no error.
C2_Witness ==
    /\ shutdownReturns > 0
    /\ grpcPc = "exited" /\ httpPc = "exited"
    /\ grpcLis = "closed" /\ httpLis = "closed"
    /\ ~aborted

\* C3: a Shutdown() call made after ListenAndServe returns (here stated for
\* the runs the claim is about: no bind failure, no accept failure): the
\* process never dies with the call still blocked in wg.Wait().
C3_ShutdownReturns ==
    ~(/\ aborted
      /\ mainPc = "waiting"
      /\ grpcErr \notin {"bind", "accept"}
      /\ httpErr = "none")

\* The lifecycle of the host: 0 Created (no listener task spawned yet), 1
\* Listening, 2 Draining (the shutdown handler has seen the cancellation),
\* 3 Stopped (both shutdown tasks are complete).
Phase ==
    IF grpcPc = "none" THEN 0
    ELSE IF handlerPc \in {"none", "waiting"} THEN 1
    ELSE IF Unfinished # {} THEN 2
    ELSE 3

\* C4: the lifecycle only moves forward; Listening -> Draining happens
\* exactly once however often cancellation is requested (never twice, and
\* once the context is done and the handler is waiting it does happen,
\* unless the process dies first); GracefulStop and http Shutdown are each
\* called at most once; a listener that was closed is never open again and
\* a stopped server never accepts.
C4_Lifecycle ==
    /\ [][Phase' >= Phase]_vars
    /\ [][(grpcLis = "closed" => grpcLis' = "closed")
          /\ (httpLis = "closed" => httpLis' = "closed")]_vars
    /\ [](drainStarts <= 1 /\ grpcStopCalls <= 1 /\ httpStopCalls <= 1)
    /\ []((Phase >= 2) <=> (drainStarts = 1))
    /\ [](grpcStopped => ~GrpcAccepting)
    /\ [](httpInShutdown => ~HttpAccepting)
    /\ ((CtxDone /\ handlerPc = "waiting") ~> (drainStarts = 1 \/ aborted))

\* C4 witness: cancellation was requested three times over (the parent's,
\* and two Shutdown() calls) and the host went through one drain to Stopped.
C4_Witness ==
    /\ parentDone
    /\ cancelCalls >= 2
    /\ shutdownReturns = 2
    /\ drainStarts = 1
    /\ Phase = 3

C6_OtherShutDownBeforeAbort ==
    /\ (aborted /\ grpcErr = "accept" /\ httpPc = "serving")
           => httpStopPc = "done"
    /\ (aborted /\ httpErr = "accept" /\ grpcPc = "serving")
           => grpcStopPc = "done"

\* C7: an HTTP drain that ran into its deadline has force-closed the
\* connections that remained, logs a warning, completes, and raises neither
\* a cancellation nor a fatal error.
C7_DrainTimeout ==
    /\ (httpTimedOut /\ httpStopPc \in {"returned", "done"}) => httpConns = 0
    /\ (httpTimedOut /\ httpStopPc = "done") =>
           "Unable to gracefully handle all HTTP connections" \in srvLog

\* C8: New fails, and yields no Server, exactly for a nil grpcServer; the
\* Server it returns otherwise is in the Created state: its context is done
\* only if the parent's is, its WaitGroup is zero and nothing is listening.
C8_New ==
    /\ mainPc = "newFailed" <=> (mainPc # "init" /\ grpcServer = "nil")
    /\ newErr <=> mainPc = "newFailed"
    /\ mainPc = "newFailed" => Phase = 0 /\ wg = 0 /\ handlerPc = "none"
    /\ mainPc = "created" =>
           /\ Phase = 0
           /\ cancelCalls = 0
           /\ CtxDone <=> parentDone
           /\ wg = 0
           /\ grpcPc = "none" /\ httpPc = "none" /\ handlerPc = "none"
           /\ grpcLis = "none" /\ httpLis = "none"

\* C8 witness: New has returned a Server for a non-nil handle and a live
\* parent context.
C8_Witness ==
    mainPc = "created" /\ grpcServer = "srv" /\ ~parentDone /\ ~newErr

\* The kinds of log entry of a call.
IsRequest(e) == e.msg \in {"request (unary)", "request (stream)"}
IsMessage(e) == e.msg \in {"StreamSend", "StreamRecv"}
IsResponse(e) == e.msg \in {"response (unary)", "response (stream)"}

\* C9: in the entries of every call, the request-started entry comes before
\* the response-finished entry; for a stream the request-started entry comes
\* before every StreamSend/StreamRecv entry and each of these before the
\* response-finished entry, whatever the other calls do meanwhile.  Every
\* message or response entry has a request entry before it, and a call that
\* has finished has logged its response.
C9_LogOrder ==
    \A c \in Calls :
        /\ \A i, j \in 1..Len(log[c]) :
              /\ (IsRequest(log[c][i]) /\ ~IsRequest(log[c][j])) => i < j
              /\ (IsMessage(log[c][i]) /\ IsResponse(log[c][j])) => i < j
        /\ \A j \in 1..Len(log[c]) :
              ~IsRequest(log[c][j]) =>
                  \E i \in 1..(j - 1) : IsRequest(log[c][i])
        /\ \A j \in 1..Len(log[c]) :
              IsMessage(log[c][j]) => callIn[c].kind = "stream"
        /\ callPc[c] = "done" =>
              /\ Len(log[c]) >= 2
              /\ IsResponse(log[c][Len(log[c])])

\* A stream has logged its request, a message and its response while
\* another call was under way.
C9_Witness ==
    \E c, d \in Calls :
        /\ c # d
        /\ callIn[c].kind = "stream"
        /\ callPc[c] = "done"
        /\ Len(log[c]) = 3
        /\ IsRequest(log[c][1])
        /\ IsMessage(log[c][2])
        /\ IsResponse(log[c][3])
        /\ callPc[d] = "handling"
        /\ Len(log[d]) = 1

\* C10: two calls never hold the same field map; every field of a call's
\* map and of every entry logged for the call was written by that call's own
\* request-logging step, handler or response-logging step; and an entry,
\* once logged, is not changed by any later step of any call.
C10_DisjointFields ==
    /\ [](\A c, d \in Calls :
              (c # d /\ callFields[c] # 0) => callFields[c] # callFields[d])
    /\ [](\A c \in Calls :
              /\ callFields[c] # 0 =>
                    \A k \in DOMAIN heap[callFields[c]] :
                        heap[callFields[c]][k].owner = c
              /\ \A i \in 1..Len(log[c]) :
                    /\ log[c][i].call = c
                    /\ \A k \in DOMAIN log[c][i].data :
                          log[c][i].data[k].owner = c)
    /\ [][\A c \in Calls :
              /\ Len(log'[c]) >= Len(log[c])
              /\ SubSeq(log'[c], 1, Len(log[c])) = log[c]]_vars

\* A unary call and a stream were under way together, the handler of each
\* wrote into its map, and one has logged its response while the other is
\* still being handled.
C10_Witness ==
    \E c, d \in Calls :
        /\ c # d
        /\ callIn[c].kind # callIn[d].kind
        /\ callPc[c] = "done"
        /\ callPc[d] = "handling"
        /\ "handler" \in DOMAIN heap[callFields[c]]
        /\ "handler" \in DOMAIN heap[callFields[d]]
        /\ "handler" \in DOMAIN log[c][Len(log[c])].data
        /\ Len(log[d]) >= 1


\* The status code an entry carries.
CodeOf(e) == e.data["code"].val[1]

\* The severity table: status code to severity.
SeverityOf(code) ==
    IF code \in {"OK", "Canceled", "NotFound", "AlreadyExists",
                 "InvalidArgument", "Unauthenticated"} THEN "info"
    ELSE IF code \in {"DeadlineExceeded", "PermissionDenied",
                      "ResourceExhausted", "FailedPrecondition", "Aborted",
                      "OutOfRange", "Unavailable"} THEN "warning"
    ELSE "error"

\* C11: DefaultCodeToLevel agrees with the severity table on each of the 17
\* status codes, each of them is matched by a case clause of its own, and
\* every response-finished or per-message entry, in whatever state it was
\* logged, is at the level the table gives for its code.
C11_SeverityTable ==
    /\ Cardinality(Codes) = 17
    /\ \A code \in Codes :
          /\ code \in DOMAIN CodeCases
          /\ DefaultCodeToLevel(code) = SeverityOf(code)
    /\ \A c \in Calls : \A i \in 1..Len(log[c]) :
          (~IsRequest(log[c][i]) /\ CodeOf(log[c][i]) \in Codes) =>
              log[c][i].level = SeverityOf(CodeOf(log[c][i]))

\* The response of a call whose handler failed with DeadlineExceeded has
\* been logged, as a warning.
C11_Witness ==
    \E i \in 1..Len(log[1]) :
        /\ IsResponse(log[1][i])
        /\ CodeOf(log[1][i]) = "DeadlineExceeded"
        /\ log[1][i].level = "warning"


\* The interceptor of call c has logged the request and called the handler.
Started(c) == callPc[c] \in {"handling", "returned", "done"}

\* The text of a metadata value of md under key k, the empty text when md
\* has no such key.
MdText(md, k) == IF md.ok /\ k \in DOMAIN md.kv THEN md.kv[k] ELSE <<>>

\* C12: the request identifier of a call is the base64-url encoded hash of
\* its user-agent value followed by its x-forwarded-for value (an absent
\* value counting as the empty text), and of nothing else; it is there
\* exactly when that text is not empty.
C12_RequestId ==
    \A c \in Calls :
        (Started(c) /\ callIn[c].md.ok) =>
            LET text == MdText(callIn[c].md, "user-agent") \o
                        MdText(callIn[c].md, "x-forwarded-for")
                f == heap[callFields[c]]
            IN  IF text = <<>> THEN ":request-id" \notin DOMAIN f
                ELSE /\ ":request-id" \in DOMAIN f
                     /\ f[":request-id"].val = RequestIdOf(text)


\* The host of a transport address: the address without its port (what
\* follows the last ':', if there is one) and without enclosing brackets.
HostOf(addr) ==
    LET colon == LastIndexByte(addr, ":")
        noPort == IF colon < 0 THEN addr ELSE SubSeq(addr, 1, colon)
    IN  IF noPort # <<>> /\ Head(noPort) = "[" /\ noPort[Len(noPort)] = "]"
          THEN SubSeq(noPort, 2, Len(noPort) - 1)
          ELSE noPort

\* Loopback and localhost hosts: 127.0.0.0/8, ::1, localhost.
IsLocalHost(host) ==
    \/ HasPrefix(host, <<"1", "2", "7", ".">>)
    \/ host = <<":", ":", "1">>
    \/ host = StrLocalhost

\* C13: once the interceptor of a call with a (non-empty) peer address has
\* logged the request, the call's field map has no peer
\* field if the address is a loopback or localhost address, and otherwise
\* its peer field is the address without port and brackets.
C13_PeerField ==
    \A c \in Calls :
        (Started(c) /\ callIn[c].peer.ok /\ callIn[c].peer.addr # <<>>) =>
            LET f == heap[callFields[c]]
                host == HostOf(callIn[c].peer.addr)
            IN  IF IsLocalHost(host) THEN "peer" \notin DOMAIN f
                ELSE /\ "peer" \in DOMAIN f
                     /\ f["peer"].val = host


\* C14: a failure in the logging pipeline never aborts the call: whatever
\* its peer address, metadata and payload, a call that has entered its
\* interceptor has logged the request and reached its handler (from where
\* the handler's response and error are returned).
C14_LoggingNeverAborts ==
    \A c \in Calls : callPc[c] # "idle" => Started(c)


\* C15: what the default codec encodes of a protobuf message holds every
\* field of the message, those at their zero value too, under the name
\* declared for it; and decoding it gives, without an error, a message equal
\* to the one encoded.
C15_JsonRoundTrip ==
    /\ (codecPc \in {"encoded", "decoded"} /\ codecIn.proto) =>
          /\ DOMAIN wire = FieldNames
          /\ \A n \in FieldNames :
                wire[n] = JsonOfField(TypeOf(n), codecIn.val[n])
    /\ (codecPc = "decoded" /\ codecIn.proto) =>
          /\ codecOut.err = "nil"
          /\ codecOut.msg = codecIn.val

\* A message with fields at their zero value and fields set has been
\* encoded and decoded back.
C15_Witness ==
    /\ codecPc = "decoded"
    /\ codecIn.proto
    /\ codecIn.val.fail = FALSE
    /\ codecIn.val.name = <<>>
    /\ codecIn.val.count = 3
    /\ codecIn.val.total = 12
    /\ codecIn.val.user_name # <<>>
    /\ codecOut.msg = codecIn.val

\* C16: the form decoder reports success only if the destination is a
\* protobuf message, the body parses, and every pair of the body names a
\* field and has been assigned to it as a value of the field's type; a
\* destination that is no protobuf message fails before anything is read.
C16_FormDecode ==
    codecPc = "formDecoded" =>
        /\ ~codecIn.proto =>
              codecOut.err = "not proto message" /\ ~codecOut.read
        /\ codecOut.err = "nil" =>
              /\ codecIn.proto
              /\ \A i \in 1..Len(codecIn.body) :
                    LET p == codecIn.body[i]
                    IN  /\ UnescapeOk(p.v)
                        /\ p.k \in FieldNames
                        /\ FormConvert(TypeOf(p.k), p.v).ok
                        /\ codecOut.msg[p.k] =
                               FormConvert(TypeOf(p.k), p.v).val


\* 1 for a listener task that has been spawned and has not exited.
Outstanding(pc) == IF pc \in {"none", "exited", "dead"} THEN 0 ELSE 1

\* C17: the WaitGroup counter always is the number of listener tasks
\* spawned and not yet exited, and so never negative; it goes up by one
\* exactly in the step that spawns a listener task and down by one exactly
\* in the step in which a listener task exits, normally or by its panic;
\* no other step changes it.
C17_Barrier ==
    /\ [](wg = Outstanding(grpcPc) + Outstanding(httpPc))
    /\ [](wg >= 0)
    /\ [][wg' # wg =>
            \/ /\ wg' = wg + 1
               /\ \/ grpcPc = "none" /\ grpcPc' = "start" /\ httpPc' = httpPc
                  \/ httpPc = "none" /\ httpPc' = "start" /\ grpcPc' = grpcPc
            \/ /\ wg' = wg - 1
               /\ \/ /\ Outstanding(grpcPc) = 1
                     /\ grpcPc' \in {"exited", "dead"}
                     /\ httpPc' = httpPc
                  \/ /\ Outstanding(httpPc) = 1
                     /\ httpPc' \in {"exited", "dead"}
                     /\ grpcPc' = grpcPc]_vars

\* The HTTP listener task has exited after a shutdown that has completed
\* while the gRPC listener task, still draining a call, keeps the counter
\* at one.
C17_Witness ==
    /\ httpPc = "exited"
    /\ httpStopPc = "done"
    /\ Outstanding(grpcPc) = 1
    /\ grpcCalls > 0
    /\ wg = 1


\* How many request-started and response-finished entries call c logged.
NumRequests(c) == Cardinality({i \in 1..Len(log[c]) : IsRequest(log[c][i])})
NumResponses(c) ==
    Cardinality({i \in 1..Len(log[c]) : IsResponse(log[c][i])})

\* The interceptor of call c is over: it has returned or was left by a
\* panic.
Over(c) == callPc[c] \in {"done", "panicked"}

\* C18: a call that has entered its interceptor has logged one
\* request-started entry, and no second one whatever is sent or received on
\* a stream; a call whose interceptor is over has logged one
\* response-finished entry, whatever its handler returned, and before that
\* none.
C18_OncePerCall ==
    \A c \in Calls :
        /\ NumRequests(c) = IF callPc[c] = "idle" THEN 0 ELSE 1
        /\ NumResponses(c) = IF Over(c) THEN 1 ELSE 0


\* A full method name /S/M split on its last path separator: S without the
\* leading separator, and M.
ServicePart(full) == SubSeq(full, 2, LastIndexByte(full, "/"))
MethodPart(full) == SubSeq(full, LastIndexByte(full, "/") + 2, Len(full))

\* C19: on the unary and on the streaming path alike, the field map of a
\* call to /S/M holds the base fields service = S and method = M.
C19_SameBaseFields ==
    \A c \in Calls :
        Started(c) =>
            LET f == heap[callFields[c]]
            IN  /\ "service" \in DOMAIN f
                /\ "method" \in DOMAIN f
                /\ f["service"].val = ServicePart(callIn[c].full)
                /\ f["method"].val = MethodPart(callIn[c].full)


\* The status code an error is classified as: OK for nil, the code of a
\* status error, Unknown for an error that carries no status.
ClassOf(err) ==
    IF err = "nil" THEN "OK" ELSE IF err = "plain" THEN "Unknown" ELSE err

\* C20: the response-finished entry of a call, unary or streaming, holds
\* the call's field map as the handler left it: every field of the
\* request-started entry with its value, the field the handler added to the
\* map of its context if it added one, and on top elapsed, start and code,
\* code being the status code of the error the handler returned.
C20_ResponseFields ==
    \A c \in Calls :
        callPc[c] = "done" =>
            LET req == log[c][1].data
                resp == log[c][Len(log[c])].data
                added == {"elapsed", "start", "code"}
                map == heap[callFields[c]]
            IN  /\ IsResponse(log[c][Len(log[c])])
                /\ \A k \in DOMAIN req \ added :
                      k \in DOMAIN resp /\ resp[k] = req[k]
                /\ "handler" \in DOMAIN map =>
                      /\ "handler" \in DOMAIN resp
                      /\ resp["handler"].val = <<"added">>
                /\ DOMAIN resp = DOMAIN req \cup added \cup
                      (DOMAIN map \cap {"handler"})
                /\ resp["code"].val = <<ClassOf(callErr[c])>>
                /\ resp["elapsed"].val = <<"time.Since(start)">>
                /\ resp["start"].val = <<"start">>

\* A stream from a remote peer, with both identifying headers, whose
\* handler added a field and failed with Unavailable, has logged its
\* response.
C20_Witness ==
    /\ callPc[1] = "done"
    /\ callIn[1].kind = "stream"
    /\ callErr[1] = "Unavailable"
    /\ {"peer", ":request-id", "handler", "code"} \subseteq
           DOMAIN log[1][Len(log[1])].data
    /\ CodeOf(log[1][Len(log[1])]) = "Unavailable"


\* The per-message entries of call c, in the order they were logged.
MessageEntries(c) == SelectSeq(log[c], IsMessage)

\* The send and receive operations of call c that the flags of the
\* interceptor have logged, in the order they were done.
LoggedOp(op) ==
    IF op.dir = "send" THEN li.LogStreamSendMsg ELSE li.LogStreamRecvMsg
LoggedOps(c) == SelectSeq(callOps[c], LoggedOp)

\* C21: the per-message entries of a call are, one for one and in order,
\* the sends and receives its flags log, each at the level
\* DefaultCodeToLevel gives for the status code of the error of that
\* operation and with that code in its code field; and a call whose handler
\* has returned and whose interceptor has finished has one
\* response-finished entry, its last, at the level of the status code of
\* the error the handler returned and with that code in its code field.
C21_LevelOfCode ==
    \A c \in Calls :
        /\ Len(MessageEntries(c)) = Len(LoggedOps(c))
        /\ \A i \in 1..Len(MessageEntries(c)) :
              LET e == MessageEntries(c)[i]
                  op == LoggedOps(c)[i]
              IN  /\ e.msg = IF op.dir = "send" THEN "StreamSend"
                                                ELSE "StreamRecv"
                  /\ CodeOf(e) = ClassOf(op.err)
                  /\ e.level = SeverityOf(ClassOf(op.err))
        /\ callPc[c] = "done" =>
              /\ NumResponses(c) = 1
              /\ LET e == log[c][Len(log[c])]
                 IN  /\ IsResponse(e)
                     /\ CodeOf(e) = ClassOf(callErr[c])
                     /\ e.level = SeverityOf(ClassOf(callErr[c]))

\* A stream whose receive failed with ResourceExhausted, logged as a
\* warning, and whose handler then failed with Aborted, has logged its
\* response as a warning.
C21_Witness ==
    /\ callPc[1] = "done"
    /\ callErr[1] = "Aborted"
    /\ Len(MessageEntries(1)) = 1
    /\ MessageEntries(1)[1].msg = "StreamRecv"
    /\ CodeOf(MessageEntries(1)[1]) = "ResourceExhausted"
    /\ MessageEntries(1)[1].level = "warning"
    /\ log[1][Len(log[1])].level = "warning"


\* The entries of call c with message msg, and its operations in
\* direction dir.
NumEntries(c, msg) ==
    Cardinality({i \in 1..Len(log[c]) : log[c][i].msg = msg})
NumOps(c, dir) ==
    Cardinality({i \in 1..Len(callOps[c]) : callOps[c][i].dir = dir})

\* An entry holds a message payload: the request of a unary call or a
\* message of a stream, under whatever key.
HasPayload(e) ==
    \E k \in DOMAIN e.data : e.data[k].val \in {<<"NilMsg">>, <<"jsonpb">>}

\* C22: a call has a StreamSend entry for each of its sends if
\* LogStreamSendMsg is set and none if not, whatever LogStreamRecvMsg is; a
\* StreamRecv entry for each of its receives if LogStreamRecvMsg is set and
\* none if not, whatever LogStreamSendMsg is; its field map and its
\* entries hold the request of a unary call only if LogUnaryReqMsg is set;
\* and with the three flags off no entry holds a payload.
C22_PayloadFlags ==
    \A c \in Calls :
        /\ NumEntries(c, "StreamSend") =
              IF li.LogStreamSendMsg THEN NumOps(c, "send") ELSE 0
        /\ NumEntries(c, "StreamRecv") =
              IF li.LogStreamRecvMsg THEN NumOps(c, "recv") ELSE 0
        /\ ~li.LogUnaryReqMsg =>
              /\ \A o \in Objects : "gateway-request" \notin DOMAIN heap[o]
              /\ \A i \in 1..Len(log[c]) :
                    "gateway-request" \notin DOMAIN log[c][i].data
        /\ (~li.LogStreamSendMsg /\ ~li.LogStreamRecvMsg
            /\ ~li.LogUnaryReqMsg) =>
              \A i \in 1..Len(log[c]) : ~HasPayload(log[c][i])

\* With sends logged and receives not, a stream has sent a message and its
\* StreamSend entry holds the message.
C22_Witness ==
    /\ li.LogStreamSendMsg
    /\ ~li.LogStreamRecvMsg
    /\ NumOps(1, "send") = 1
    /\ \E i \in 1..Len(log[1]) :
          /\ log[1][i].msg = "StreamSend"
          /\ "value" \in DOMAIN log[1][i].data
          /\ HasPayload(log[1][i])


\* The inbound metadata of a call holds a header the request id is derived
\* from.
Identified(md) ==
    md.ok /\ {"user-agent", "x-forwarded-for"} \cap DOMAIN md.kv # {}

\* C23: the field map of a call holds the request identifier if and only
\* if the inbound metadata of the call holds user-agent or x-forwarded-for
\* (with whatever value); the request-started and response-finished entries
\* of such a call carry it, and no entry of a call with neither header, or
\* without inbound metadata, does.
C23_RequestIdPresence ==
    \A c \in Calls :
        Started(c) =>
            /\ (":request-id" \in DOMAIN heap[callFields[c]])
                  <=> Identified(callIn[c].md)
            /\ \A i \in 1..Len(log[c]) :
                  /\ (":request-id" \in DOMAIN log[c][i].data)
                        => Identified(callIn[c].md)
                  /\ (Identified(callIn[c].md) /\ ~IsMessage(log[c][i]))
                        => ":request-id" \in DOMAIN log[c][i].data

\* A call whose only header is a user-agent of empty value has logged its
\* response with a request identifier.
C23_Witness ==
    /\ callPc[1] = "done"
    /\ callIn[1].md = MdEmptyAgent
    /\ ":request-id" \in DOMAIN log[1][Len(log[1])].data


\* Shutdown() has been called on a host whose context nobody else
\* cancelled, and neither listener met a bind failure or a serve error.
ShutdownOnly ==
    /\ shutdownCalls > 0
    /\ ~parentDone
    /\ grpcErr \notin {"bind", "accept"}
    /\ httpErr \notin {"bind", "accept"}

\* C24: in a shutdown triggered by Shutdown() alone, however the call
\* interleaves with the start of the listeners, the gRPC listener goroutine
\* meets no error, neither listener goroutine cancels and panics, and the
\* process does not die.
C24_ShutdownOnlyNotFatal ==
    ShutdownOnly =>
        /\ grpcErr = "none"
        /\ httpErr = "none"
        /\ grpcPc \notin {"failed", "panic", "dead"}
        /\ httpPc \notin {"failed", "panic", "dead"}
        /\ ~aborted


\* C25: a call that has entered its interceptor has had its handler
\* invoked once by the time the interceptor is over, and never more than
\* once, a unary handler with the request of the call; the interceptor then
\* has returned what the handler returned (response and error on the unary
\* path, the error on the streaming path); and every SendMsg / RecvMsg of
\* the stream wrapper has done one operation on the underlying stream and
\* returned the error of that operation, under every setting of the flags.
C25_Transparent ==
    \A c \in Calls :
        /\ Len(handlerArgs[c]) <= 1
        /\ Over(c) =>
              /\ handlerArgs[c] =
                    << IF callIn[c].kind = "unary" THEN "req" ELSE "stream" >>
              /\ callRet[c] = [resp |-> HandlerResp(callIn[c].kind, callErr[c]),
                               err |-> callErr[c]]
        /\ Len(callOps[c]) = callMsgs[c]
        /\ Len(wrapRets[c]) = callMsgs[c]
        /\ \A i \in 1..Len(wrapRets[c]) : wrapRets[c][i] = callOps[c][i].err


\* The names of the base fields of a call: what the interceptor of its kind
\* calls the service and the method.
ServiceKey(kind) == IF kind = "unary" THEN "gateway-service" ELSE "service"
MethodKey(kind) == IF kind = "unary" THEN "gateway-method" ELSE "method"

\* C26: in every request-started and response-finished entry of a call to
\* /S/M the base service field is S and the base method field is M,
\* whatever the keys of the inbound metadata are.
C26_BaseFieldsNotSpoofed ==
    \A c \in Calls : \A i \in 1..Len(log[c]) :
        (IsRequest(log[c][i]) \/ IsResponse(log[c][i])) =>
            LET d == log[c][i].data
                sk == ServiceKey(callIn[c].kind)
                mk == MethodKey(callIn[c].kind)
            IN  /\ sk \in DOMAIN d
                /\ mk \in DOMAIN d
                /\ d[sk].val = ServicePart(callIn[c].full)
                /\ d[mk].val = MethodPart(callIn[c].full)

=========================================================================
